---- MODULE Spec2Model ----
(***************************************************************************)
(* Model of the Reddit scraper: the admission pipeline of                  *)
(* RedditScraperLocal.fetchSubredditNew and the store writer of            *)
(* RedditDiscoveryRunner.insertPosts / run.                                *)
(*                                                                         *)
(* Strings are sequences of one-character strings, so that toLowerCase,    *)
(* trim, replace, includes and the regular expressions of the source are   *)
(* computed character by character.  A missing (undefined / null) field    *)
(* is the one-element sequence Null, which no character string equals.     *)
(***************************************************************************)
EXTENDS Integers, Sequences, FiniteSets, TLC

(***************************************************************************)
(* Bounds of the model.                                                    *)
(***************************************************************************)
\* longest community segment / community field enumerated for extractSubreddit
MaxSegLen == 2
\* children in one listing processed by fetchSubredditNew
MaxChildren == 2
\* keywords in one caller-supplied keyword list
MaxKeywords == 2

(***************************************************************************)
(* JavaScript string primitives.                                           *)
(***************************************************************************)
Null == <<"NULL">>

\* JS truthiness of an optional string: neither undefined/null nor ''
Truthy(s) == s # Null /\ s # <<>>

UpperChars == <<"A","B","C","D","E","F","G","H","I","J","K","L","M",
                "N","O","P","Q","R","S","T","U","V","W","X","Y","Z">>
LowerChars == <<"a","b","c","d","e","f","g","h","i","j","k","l","m",
                "n","o","p","q","r","s","t","u","v","w","x","y","z">>
DigitChars == {"0","1","2","3","4","5","6","7","8","9"}

\* the lowercase letter of every uppercase letter
LowerOf ==
  [c \in {UpperChars[i] : i \in 1..26} |->
     LowerChars[CHOOSE i \in 1..26 : UpperChars[i] = c]]

LowerChar(c) == IF c \in DOMAIN LowerOf THEN LowerOf[c] ELSE c

\* String.prototype.toLowerCase
toLowerCase(s) == [i \in 1..Len(s) |-> LowerChar(s[i])]

\* the characters matched by \s
IsSpace(c) == c \in {" ", "\t", "\n"}

\* String.prototype.trim
trim(s) ==
  IF \A i \in 1..Len(s) : IsSpace(s[i]) THEN <<>>
  ELSE LET first == CHOOSE i \in 1..Len(s) :
                      ~IsSpace(s[i]) /\ \A j \in 1..(i-1) : IsSpace(s[j])
           last  == CHOOSE i \in 1..Len(s) :
                      ~IsSpace(s[i]) /\ \A j \in (i+1)..Len(s) : IsSpace(s[j])
       IN SubSeq(s, first, last)

\* sub occurs in s at position i
MatchAt(s, sub, i) ==
  /\ i >= 1
  /\ i + Len(sub) - 1 <= Len(s)
  /\ SubSeq(s, i, i + Len(sub) - 1) = sub

\* String.prototype.includes
includes(s, sub) == \E i \in 1..(Len(s) + 1) : MatchAt(s, sub, i)

\* s.replace(/^r\//i, '')
StripRPrefix(s) ==
  IF Len(s) >= 2 /\ LowerChar(s[1]) = "r" /\ s[2] = "/"
  THEN SubSeq(s, 3, Len(s))
  ELSE s

\* s.replace(/[_-]/g, ' ')
ReplaceSeparators(s) ==
  [i \in 1..Len(s) |-> IF s[i] \in {"_", "-"} THEN " " ELSE s[i]]

\* s.replace(/\s+/g, ' '): every maximal run of whitespace becomes one space
RECURSIVE CollapseSpaces(_)
CollapseSpaces(s) ==
  IF s = <<>> THEN <<>>
  ELSE IF IsSpace(s[1])
       THEN IF Len(s) >= 2 /\ IsSpace(s[2])
            THEN CollapseSpaces(Tail(s))
            ELSE <<" ">> \o CollapseSpaces(Tail(s))
       ELSE <<s[1]>> \o CollapseSpaces(Tail(s))

(***************************************************************************)
(* Keyword and community normalisation (RedditScraperLocal.ts).            *)
(***************************************************************************)
normalizeKeyword(keyword) ==
  CollapseSpaces(ReplaceSeparators(trim(toLowerCase(keyword))))

RECURSIVE FilterFirst(_, _)
\* normalized.filter(kw => first occurrence), seen = the set built so far
FilterFirst(ks, seen) ==
  IF ks = <<>> THEN <<>>
  ELSE IF Head(ks) \in seen
       THEN FilterFirst(Tail(ks), seen)
       ELSE <<Head(ks)>> \o FilterFirst(Tail(ks), seen \cup {Head(ks)})

deduplicateKeywords(keywords) ==
  FilterFirst([i \in 1..Len(keywords) |-> normalizeKeyword(keywords[i])], {})

cleanSubredditName(subreddit) == trim(StripRPrefix(subreddit))

\* mutant: the comparison of the case-sensitivity bug, no lowercasing
normalizeSubreddit_CaseSensitive(subreddit) == StripRPrefix(trim(subreddit))

normalizeSubreddit(subreddit) == StripRPrefix(trim(toLowerCase(subreddit)))

\* permalink.match(/^\/r\/([^\/]+)\//): the captured group, or Null
PermalinkMatch(permalink) ==
  IF /\ MatchAt(permalink, <<"/","r","/">>, 1)
     /\ \E e \in 5..Len(permalink) :
          /\ permalink[e] = "/"
          /\ \A j \in 4..(e-1) : permalink[j] # "/"
  THEN LET e == CHOOSE e \in 5..Len(permalink) :
                  /\ permalink[e] = "/"
                  /\ \A j \in 4..(e-1) : permalink[j] # "/"
       IN SubSeq(permalink, 4, e - 1)
  ELSE Null

extractSubreddit(post) ==
  LET m == IF Truthy(post.permalink) THEN PermalinkMatch(post.permalink) ELSE Null
      permalinkSubreddit == IF Truthy(m) THEN normalizeSubreddit(m) ELSE Null
  IN IF ~Truthy(permalinkSubreddit)
     THEN [subreddit |-> Null, isCrossPost |-> FALSE]
     ELSE IF Truthy(post.subreddit)
             /\ normalizeSubreddit(post.subreddit) # permalinkSubreddit
          THEN [subreddit |-> Null, isCrossPost |-> TRUE]
          ELSE [subreddit |-> permalinkSubreddit, isCrossPost |-> FALSE]

DeletedStr == <<"[","d","e","l","e","t","e","d","]">>

\* mutant: the placeholder of the "unknown" bug instead of "[deleted]"
extractAuthor_Unknown(post) ==
  IF ~Truthy(post.author) \/ post.author = DeletedStr
  THEN <<"u","n","k","n","o","w","n">>
  ELSE post.author

extractAuthor(post) ==
  IF ~Truthy(post.author) \/ post.author = DeletedStr
  THEN DeletedStr
  ELSE post.author

\* mutant: the upper bound of the window is exclusive
isWithinWindow_Exclusive(date, from, to) == date >= from /\ date < to

\* TimeWindow.isWithinWindow on millisecond timestamps
isWithinWindow(date, from, to) == date >= from /\ date <= to

(***************************************************************************)
(* RedditScraperLocal.fetchSubredditNew: the body of the loop over the     *)
(* children of one listing.  loc holds the local variables of the call.    *)
(***************************************************************************)
RedditOrigin == <<"h","t","t","p","s",":","/","/","r","e","d","d","i","t",".","c","o","m">>

NoExtraction == [subreddit |-> Null, isCrossPost |-> FALSE]

\* The counters and the result list live for the whole call; reached,
\* keywordsMatched and extraction are the locals of the last iteration:
\* the check at which it ended and what it had computed by then.
InitialLocals ==
  [ posts              |-> <<>>,
    postsInWindow      |-> 0,
    postsFiltered      |-> 0,
    matchedCount       |-> 0,
    skippedNoSubreddit |-> 0,
    skippedCrossPost   |-> 0,
    skippedDeleted     |-> 0,
    skippedTimeWindow  |-> 0,
    skippedNoKeyword   |-> 0,
    reached            |-> "none",
    keywordsMatched    |-> <<>>,
    extraction         |-> NoExtraction ]

\* mutant: the title is not lowercased before the substring test
MatchKeywords_CaseSensitive(title, keywords) ==
  LET Hit(kw) == includes(title, toLowerCase(kw))
  IN SelectSeq(keywords, Hit)

\* keywords.filter(kw => titleLower.includes(kw.toLowerCase()))
MatchKeywords(title, keywords) ==
  LET titleLower == toLowerCase(title)
      Hit(kw) == includes(titleLower, toLowerCase(kw))
  IN SelectSeq(keywords, Hit)

IsDeletedOrRemoved(post) ==
  \/ post.selftext = DeletedStr
  \/ post.title = DeletedStr
  \/ Truthy(post.removed_by_category)

NewNormalizedPost(post, postDate, keywordsMatched, extractedSubreddit) ==
  [ id              |-> post.id,
    platform        |-> "reddit",
    title           |-> post.title,
    content         |-> IF Truthy(post.selftext) THEN post.selftext ELSE <<>>,
    url             |-> RedditOrigin \o post.permalink,
    author          |-> extractAuthor(post),
    sourceContext   |-> <<"r","/">> \o extractedSubreddit,
    createdAt       |-> postDate,
    keywordsMatched |-> keywordsMatched,
    raw             |-> [ score       |-> post.score,
                          numComments |-> post.num_comments,
                          subreddit   |-> extractedSubreddit ] ]

\* mutant: the cross-post branch forgets its counter
ProcessChild_NoCrossCount(loc, post, keywords, timeWindow) ==
  LET postDate        == post.created_utc * 1000
      keywordsMatched == MatchKeywords(post.title, keywords)
      extraction      == extractSubreddit(post)
      fresh           == [loc EXCEPT !.reached = "none", !.keywordsMatched = <<>>,
                                     !.extraction = NoExtraction]
  IN IF ~isWithinWindow(postDate, timeWindow.from, timeWindow.to)
     THEN [fresh EXCEPT !.postsFiltered = @ + 1, !.skippedTimeWindow = @ + 1,
                        !.reached = "window"]
     ELSE IF IsDeletedOrRemoved(post)
     THEN [fresh EXCEPT !.skippedDeleted = @ + 1, !.reached = "deleted"]
     ELSE IF Len(keywordsMatched) = 0
     THEN [fresh EXCEPT !.skippedNoKeyword = @ + 1, !.reached = "keyword"]
     ELSE IF ~Truthy(extraction.subreddit)
     THEN IF extraction.isCrossPost
          THEN [fresh EXCEPT !.reached = "subreddit",
                             !.keywordsMatched = keywordsMatched,
                             !.extraction = extraction]
          ELSE [fresh EXCEPT !.skippedNoSubreddit = @ + 1, !.reached = "subreddit",
                             !.keywordsMatched = keywordsMatched,
                             !.extraction = extraction]
     ELSE [fresh EXCEPT
             !.matchedCount    = @ + 1,
             !.posts           = Append(@, NewNormalizedPost(post, postDate,
                                             keywordsMatched, extraction.subreddit)),
             !.postsInWindow   = @ + 1,
             !.reached         = "admitted",
             !.keywordsMatched = keywordsMatched,
             !.extraction      = extraction]

\* mutant: the deleted/removed check comes before the time window check
ProcessChild_DeletedFirst(loc, post, keywords, timeWindow) ==
  LET postDate        == post.created_utc * 1000
      keywordsMatched == MatchKeywords(post.title, keywords)
      extraction      == extractSubreddit(post)
      fresh           == [loc EXCEPT !.reached = "none", !.keywordsMatched = <<>>,
                                     !.extraction = NoExtraction]
  IN IF IsDeletedOrRemoved(post)
     THEN [fresh EXCEPT !.skippedDeleted = @ + 1, !.reached = "deleted"]
     ELSE IF ~isWithinWindow(postDate, timeWindow.from, timeWindow.to)
     THEN [fresh EXCEPT !.postsFiltered = @ + 1, !.skippedTimeWindow = @ + 1,
                        !.reached = "window"]
     ELSE IF Len(keywordsMatched) = 0
     THEN [fresh EXCEPT !.skippedNoKeyword = @ + 1, !.reached = "keyword"]
     ELSE IF ~Truthy(extraction.subreddit)
     THEN IF extraction.isCrossPost
          THEN [fresh EXCEPT !.skippedCrossPost = @ + 1, !.reached = "subreddit",
                             !.keywordsMatched = keywordsMatched,
                             !.extraction = extraction]
          ELSE [fresh EXCEPT !.skippedNoSubreddit = @ + 1, !.reached = "subreddit",
                             !.keywordsMatched = keywordsMatched,
                             !.extraction = extraction]
     ELSE [fresh EXCEPT
             !.matchedCount    = @ + 1,
             !.posts           = Append(@, NewNormalizedPost(post, postDate,
                                             keywordsMatched, extraction.subreddit)),
             !.postsInWindow   = @ + 1,
             !.reached         = "admitted",
             !.keywordsMatched = keywordsMatched,
             !.extraction      = extraction]

ProcessChild(loc, post, keywords, timeWindow) ==
  LET postDate        == post.created_utc * 1000
      keywordsMatched == MatchKeywords(post.title, keywords)
      extraction      == extractSubreddit(post)
      fresh           == [loc EXCEPT !.reached = "none", !.keywordsMatched = <<>>,
                                     !.extraction = NoExtraction]
  IN IF ~isWithinWindow(postDate, timeWindow.from, timeWindow.to)
     THEN [fresh EXCEPT !.postsFiltered = @ + 1, !.skippedTimeWindow = @ + 1,
                        !.reached = "window"]
     ELSE IF IsDeletedOrRemoved(post)
     THEN [fresh EXCEPT !.skippedDeleted = @ + 1, !.reached = "deleted"]
     ELSE IF Len(keywordsMatched) = 0
     THEN [fresh EXCEPT !.skippedNoKeyword = @ + 1, !.reached = "keyword"]
     ELSE IF ~Truthy(extraction.subreddit)
     THEN IF extraction.isCrossPost
          THEN [fresh EXCEPT !.skippedCrossPost = @ + 1, !.reached = "subreddit",
                             !.keywordsMatched = keywordsMatched,
                             !.extraction = extraction]
          ELSE [fresh EXCEPT !.skippedNoSubreddit = @ + 1, !.reached = "subreddit",
                             !.keywordsMatched = keywordsMatched,
                             !.extraction = extraction]
     ELSE [fresh EXCEPT
             !.matchedCount    = @ + 1,
             !.posts           = Append(@, NewNormalizedPost(post, postDate,
                                             keywordsMatched, extraction.subreddit)),
             !.postsInWindow   = @ + 1,
             !.reached         = "admitted",
             !.keywordsMatched = keywordsMatched,
             !.extraction      = extraction]

RECURSIVE FetchLoop(_, _, _, _)
\* the whole for-loop of fetchSubredditNew over a listing
FetchLoop(loc, listing, keywords, timeWindow) ==
  IF listing = <<>> THEN loc
  ELSE FetchLoop(ProcessChild(loc, Head(listing), keywords, timeWindow),
                 Tail(listing), keywords, timeWindow)

\* the posts fetchSubredditNew returns for a response carrying this listing
fetchSubredditNew(listing, keywords, timeWindow) ==
  FetchLoop(InitialLocals, listing, keywords, timeWindow).posts

(***************************************************************************)
(* RedditScraperLocal.fetchPosts: one response per requested subreddit.    *)
(* A response is [ok |-> FALSE] (request() returned null, or the body had  *)
(* no children) or [ok |-> TRUE, children |-> listing].                    *)
(***************************************************************************)
RECURSIVE FilterFirstId(_, _)
FilterFirstId(posts, seen) ==
  IF posts = <<>> THEN <<>>
  ELSE IF Head(posts).id \in seen
       THEN FilterFirstId(Tail(posts), seen)
       ELSE <<Head(posts)>> \o FilterFirstId(Tail(posts), seen \cup {Head(posts).id})

\* mutant: of the posts with one id the last is kept
deduplicateById_KeepLast(posts) ==
  LET Last(i) == \A j \in (i + 1)..Len(posts) : posts[j].id # posts[i].id
      kept    == SelectSeq([i \in 1..Len(posts) |-> i], Last)
  IN [k \in 1..Len(kept) |-> posts[kept[k]]]

deduplicateById(posts) == FilterFirstId(posts, {})

RECURSIVE InsertByDate(_, _)
\* p goes behind every post that is not older than it (the sort is stable)
InsertByDate(sorted, p) ==
  IF sorted = <<>> THEN <<p>>
  ELSE IF Head(sorted).createdAt >= p.createdAt
       THEN <<Head(sorted)>> \o InsertByDate(Tail(sorted), p)
       ELSE <<p>> \o sorted

RECURSIVE SortByCreatedDesc(_)
\* posts.sort((a, b) => b.createdAt.getTime() - a.createdAt.getTime())
SortByCreatedDesc(posts) ==
  IF posts = <<>> THEN <<>>
  ELSE InsertByDate(SortByCreatedDesc(SubSeq(posts, 1, Len(posts) - 1)),
                    posts[Len(posts)])

RECURSIVE CollectPosts(_, _, _)
\* allPosts after the loop over targetSubreddits
CollectPosts(responses, keywords, timeWindow) ==
  IF responses = <<>> THEN <<>>
  ELSE (IF Head(responses).ok
        THEN fetchSubredditNew(Head(responses).children, keywords, timeWindow)
        ELSE <<>>)
       \o CollectPosts(Tail(responses), keywords, timeWindow)

fetchPosts(responses, keywords, timeWindow) ==
  SortByCreatedDesc(deduplicateById(
    CollectPosts(responses, deduplicateKeywords(keywords), timeWindow)))

(***************************************************************************)
(* RedditDiscoveryRunner.insertPosts and the normalized_items table.       *)
(***************************************************************************)
Str_r_unknown == <<"/","r","/","u","n","k","n","o","w","n">>
Str_redditR   == <<"r","e","d","d","i","t",".","c","o","m","/","r","/">>
Str_comments  == <<"/","c","o","m","m","e","n","t","s","/">>

IsAlnum(c) == c \in DigitChars \/ \E i \in 1..26 : LowerChars[i] = LowerChar(c)

\* /reddit\.com\/r\/[^/]+\/comments\/[a-z0-9]+/i.test(url)
MatchesPostUrl(url) ==
  LET u == toLowerCase(url)
  IN \E i \in 1..Len(u) :
       /\ MatchAt(u, Str_redditR, i)
       /\ \E e \in (i + Len(Str_redditR) + 1)..Len(u) :
            /\ \A k \in (i + Len(Str_redditR))..(e - 1) : u[k] # "/"
            /\ MatchAt(u, Str_comments, e)
            /\ e + Len(Str_comments) <= Len(u)
            /\ IsAlnum(u[e + Len(Str_comments)])

\* mutant: the '/r/unknown' test is missing
isValidRedditItem_NoUnknownUrl(item) ==
  /\ Truthy(item.author) /\ item.author # <<"u","n","k","n","o","w","n">>
  /\ Truthy(item.url)
  /\ MatchesPostUrl(item.url)

isValidRedditItem(item) ==
  /\ Truthy(item.author) /\ item.author # <<"u","n","k","n","o","w","n">>
  /\ Truthy(item.url)
  /\ ~includes(item.url, Str_r_unknown)
  /\ MatchesPostUrl(item.url)

\* content is cut at this many characters before it is stored
MaxContentLength == 10000
Substring0(str, n) == SubSeq(str, 1, IF Len(str) < n THEN Len(str) ELSE n)

\* mutant: the hash input without the source id
ContentHashInput_NoId(post) ==
  IF Truthy(post.content) THEN post.content ELSE <<>>

\* `${post.content || ''}|${post.id}`
ContentHashInput(post) ==
  (IF Truthy(post.content) THEN post.content ELSE <<>>) \o <<"|">> \o post.id

\* createHash('md5').update(s).digest('hex'): the digest is a value that the
\* input determines; two inputs of the model never share a digest
Md5Hex(input) == [md5 |-> input]

\* Date.prototype.toISOString of a millisecond timestamp
ToISOString(ms) == [iso |-> ms]

\* the checks between the validation gate and the insert, and the item built
SubredditOf(post) == trim(toLowerCase(post.raw.subreddit))

HasUsableSubreddit(post) ==
  Truthy(post.raw.subreddit) /\ trim(post.raw.subreddit) # <<>>

UrlNamesSubreddit(post) ==
  includes(toLowerCase(post.url), <<"/","r","/">> \o SubredditOf(post) \o <<"/">>)

\* mutant: the item is not attached to the run (run_id is null)
BuildItem_NoRunId(runId, post) ==
  [ run_id          |-> 0,
    source_platform |-> "reddit",
    source_id       |-> post.id,
    title           |-> IF Truthy(post.title) THEN post.title ELSE <<>>,
    content         |-> Substring0(IF Truthy(post.content) THEN post.content ELSE <<>>,
                                   MaxContentLength),
    author          |-> IF ~Truthy(post.author) THEN Null
                        ELSE IF post.author = <<"u","n","k","n","o","w","n">>
                             THEN DeletedStr
                             ELSE post.author,
    url             |-> post.url,
    created_at      |-> ToISOString(post.createdAt),
    content_hash    |-> Md5Hex(ContentHashInput(post)),
    dedup_key       |-> <<"r","e","d","d","i","t","_">> \o post.id,
    origin          |-> "local_scraper",
    metadata        |-> [ subreddit    |-> SubredditOf(post),
                          score        |-> post.raw.score,
                          num_comments |-> post.raw.numComments ],
    matched_keywords |-> post.keywordsMatched ]

BuildItem(runId, post) ==
  [ run_id          |-> runId,
    source_platform |-> "reddit",
    source_id       |-> post.id,
    title           |-> IF Truthy(post.title) THEN post.title ELSE <<>>,
    content         |-> Substring0(IF Truthy(post.content) THEN post.content ELSE <<>>,
                                   MaxContentLength),
    author          |-> IF ~Truthy(post.author) THEN Null
                        ELSE IF post.author = <<"u","n","k","n","o","w","n">>
                             THEN DeletedStr
                             ELSE post.author,
    url             |-> post.url,
    created_at      |-> ToISOString(post.createdAt),
    content_hash    |-> Md5Hex(ContentHashInput(post)),
    dedup_key       |-> <<"r","e","d","d","i","t","_">> \o post.id,
    origin          |-> "local_scraper",
    metadata        |-> [ subreddit    |-> SubredditOf(post),
                          score        |-> post.raw.score,
                          num_comments |-> post.raw.numComments ],
    matched_keywords |-> post.keywordsMatched ]

\* mutant: a conflicting row is overwritten (upsert) instead of refused
DbInsert_Upsert(items, item, fault) ==
  IF fault # "none"
  THEN [items |-> items, error |-> fault]
  ELSE IF \E i \in 1..Len(items) : items[i].content_hash = item.content_hash
       THEN [items |-> [i \in 1..Len(items) |->
                          IF items[i].content_hash = item.content_hash
                          THEN item ELSE items[i]],
             error |-> "none"]
       ELSE [items |-> Append(items, item), error |-> "none"]

\* what else can go wrong with the awaited insert call: nothing, an error
\* object the call resolves with (schema mismatch), or a rejection that
\* raises an exception inside the try block of the iteration
InsertFaults == {"none", "failed", "threw"}

\* supabase.from('normalized_items').insert(item) on a table with the unique
\* constraint normalized_items_content_hash_key
DbInsert(items, item, fault) ==
  IF fault = "threw"
  THEN [items |-> items, error |-> "threw"]
  ELSE IF \E i \in 1..Len(items) : items[i].content_hash = item.content_hash
       THEN [items |-> items, error |-> "duplicate"]
       ELSE IF fault = "failed"
            THEN [items |-> items, error |-> "failed"]
            ELSE [items |-> Append(items, item), error |-> "none"]

\* the locals of insertPosts: position, counters, and the outcome logged for
\* every post the loop has handled
InitialInsertState ==
  [ idx |-> 1, successCount |-> 0, skippedCount |-> 0, log |-> <<>> ]

Skip(st, why) ==
  [st EXCEPT !.idx = @ + 1, !.skippedCount = @ + 1, !.log = Append(@, why)]

\* catch (singleError): the exception is logged, no counter moves
Caught(st) ==
  [st EXCEPT !.idx = @ + 1, !.log = Append(@, "threw")]

\* mutant: every attempted insert counts as a success
AfterInsert_CountsAlways(st, error, n) ==
  [st EXCEPT !.idx = @ + 1, !.successCount = @ + 1,
             !.log = Append(@, IF error = "none" THEN "inserted" ELSE error)]

\* mutant: the first failed insert ends the loop
AfterInsert_StopsOnError(st, error, n) ==
  IF error = "none"
  THEN [st EXCEPT !.idx = @ + 1, !.successCount = @ + 1, !.log = Append(@, "inserted")]
  ELSE [st EXCEPT !.idx = n + 1, !.log = Append(@, error)]

\* if (!insertError) successCount++ else console.error(...); n = posts.length
AfterInsert(st, error, n) ==
  IF error = "none"
  THEN [st EXCEPT !.idx = @ + 1, !.successCount = @ + 1, !.log = Append(@, "inserted")]
  ELSE [st EXCEPT !.idx = @ + 1, !.log = Append(@, error)]

\* one iteration of the loop of insertPosts over posts[st.idx]
InsertIteration(st, posts, runId, items, fault) ==
  LET post == posts[st.idx]
  IN IF ~isValidRedditItem(post)
     THEN [st |-> Skip(st, "invalid"), items |-> items]
     ELSE IF ~HasUsableSubreddit(post)
     THEN [st |-> Skip(st, "noSubreddit"), items |-> items]
     ELSE IF ~UrlNamesSubreddit(post)
     THEN [st |-> Skip(st, "urlMismatch"), items |-> items]
     ELSE LET res == DbInsert(items, BuildItem(runId, post), fault)
          IN IF res.error = "threw"
             THEN [st |-> Caught(st), items |-> res.items]
             ELSE [st |-> AfterInsert(st, res.error, Len(posts)), items |-> res.items]

(***************************************************************************)
(* HttpRateLimiter (utils/rateLimiter.ts).  Times are in milliseconds; lim *)
(* is the record of the instance's fields, t the value of Date.now().      *)
(***************************************************************************)
windowMs             == 60000
maxRequestsPerMinute == 30
minRequestIntervalMs == 2000
maxRequestsPerRun    == 30
BaseBackoffMs        == 30000
MaxBackoffMs         == 120000

\* Date.now() when the limiter is constructed: a time since the epoch far
\* larger than any backoff, so that lastRateLimitTime = 0 imposes no wait
ConstructedAt == 1000000

Min(a, b) == IF a <= b THEN a ELSE b

\* the field initialisers of the class
NewLimiter(t) ==
  [ requests             |-> 0,
    lastReset            |-> t,
    blockedSubreddits    |-> {},
    blockedKeywords      |-> {},
    totalRequestsThisRun |-> 0,
    runStartTime         |-> 0,
    lastRateLimitTime    |-> 0,
    rateLimitBackoffMs   |-> BaseBackoffMs ]

\* mutant: resetRun also forgets the 429 backoff
resetRun_ClearsBackoff(lim, t) ==
  [lim EXCEPT !.totalRequestsThisRun = 0,
              !.runStartTime = t,
              !.blockedSubreddits = {},
              !.blockedKeywords = {},
              !.lastRateLimitTime = 0,
              !.rateLimitBackoffMs = BaseBackoffMs]

resetRun(lim, t) ==
  [lim EXCEPT !.totalRequestsThisRun = 0,
              !.runStartTime = t,
              !.blockedSubreddits = {},
              !.blockedKeywords = {}]

\* mutant: the per-run budget is not checked
checkRequest_NoRunLimit(lim, t, subreddit, keyword) ==
  IF Truthy(subreddit) /\ subreddit \in lim.blockedSubreddits
  THEN [action |-> "stop", waitMs |-> 0, lim |-> lim]
  ELSE IF t - lim.lastRateLimitTime < lim.rateLimitBackoffMs
  THEN [action |-> "wait",
        waitMs |-> lim.rateLimitBackoffMs - (t - lim.lastRateLimitTime), lim |-> lim]
  ELSE LET cur == IF t - lim.lastReset > windowMs
                  THEN [lim EXCEPT !.requests = 0, !.lastReset = t] ELSE lim
       IN IF cur.requests >= maxRequestsPerMinute
          THEN [action |-> "wait", waitMs |-> windowMs - (t - cur.lastReset), lim |-> cur]
          ELSE IF cur.requests > 0 /\ t - cur.lastReset < minRequestIntervalMs
          THEN [action |-> "wait",
                waitMs |-> minRequestIntervalMs - (t - cur.lastReset), lim |-> cur]
          ELSE [action |-> "continue", waitMs |-> 0, lim |-> cur]

\* checkRequest: the action, the wait it asks for, and the fields after the
\* call (the window may have been restarted)
checkRequest(lim, t, subreddit, keyword) ==
  IF lim.totalRequestsThisRun >= maxRequestsPerRun
  THEN [action |-> "stop", waitMs |-> 0, lim |-> lim]
  ELSE IF Truthy(subreddit) /\ subreddit \in lim.blockedSubreddits
  THEN [action |-> "stop", waitMs |-> 0, lim |-> lim]
  ELSE IF Truthy(keyword) /\ keyword \in lim.blockedKeywords
  THEN [action |-> "stop", waitMs |-> 0, lim |-> lim]
  ELSE IF t - lim.lastRateLimitTime < lim.rateLimitBackoffMs
  THEN [action |-> "wait",
        waitMs |-> lim.rateLimitBackoffMs - (t - lim.lastRateLimitTime), lim |-> lim]
  ELSE LET cur == IF t - lim.lastReset > windowMs
                  THEN [lim EXCEPT !.requests = 0, !.lastReset = t] ELSE lim
       IN IF cur.requests >= maxRequestsPerMinute
          THEN [action |-> "wait", waitMs |-> windowMs - (t - cur.lastReset), lim |-> cur]
          ELSE IF cur.requests > 0 /\ t - cur.lastReset < minRequestIntervalMs
          THEN [action |-> "wait",
                waitMs |-> minRequestIntervalMs - (t - cur.lastReset), lim |-> cur]
          ELSE [action |-> "continue", waitMs |-> 0, lim |-> cur]

\* what the HTTP call can come to: a 2xx response with a JSON body, a 2xx
\* response whose body does not parse, 403, 429, another non-2xx status, or
\* fetch() rejecting
Responses == {"ok", "unparsable", "403", "429", "500", "transport"}

\* mutant: a 403 does not block the subreddit
executeRequest_NoBlock(lim, t, subreddit, response, latency) ==
  LET counted == [lim EXCEPT !.totalRequestsThisRun = @ + 1, !.requests = @ + 1]
      answered == t + latency
  IN CASE response = "403" -> [lim |-> counted, result |-> "null"]
       [] response = "429" ->
            [lim |-> [counted EXCEPT
                        !.lastRateLimitTime = answered,
                        !.rateLimitBackoffMs = Min(@ * 2, MaxBackoffMs)],
             result |-> "null"]
       [] response \in {"500", "transport"} -> [lim |-> counted, result |-> "null"]
       [] response = "unparsable" ->
            [lim |-> [counted EXCEPT !.rateLimitBackoffMs = BaseBackoffMs],
             result |-> "null"]
       [] response = "ok" ->
            [lim |-> [counted EXCEPT !.rateLimitBackoffMs = BaseBackoffMs],
             result |-> "data"]

\* mutant: the error thrown for a non-2xx status is not caught
executeRequest_Rethrow(lim, t, subreddit, response, latency) ==
  LET counted == [lim EXCEPT !.totalRequestsThisRun = @ + 1, !.requests = @ + 1]
      answered == t + latency
  IN CASE response = "403" ->
            [lim |-> IF Truthy(subreddit)
                     THEN [counted EXCEPT !.blockedSubreddits = @ \cup {subreddit}]
                     ELSE counted,
             result |-> "null"]
       [] response = "429" ->
            [lim |-> [counted EXCEPT
                        !.lastRateLimitTime = answered,
                        !.rateLimitBackoffMs = Min(@ * 2, MaxBackoffMs)],
             result |-> "null"]
       [] response = "500" -> [lim |-> counted, result |-> "threw"]
       [] response = "transport" -> [lim |-> counted, result |-> "null"]
       [] response = "unparsable" ->
            [lim |-> [counted EXCEPT !.rateLimitBackoffMs = BaseBackoffMs],
             result |-> "null"]
       [] response = "ok" ->
            [lim |-> [counted EXCEPT !.rateLimitBackoffMs = BaseBackoffMs],
             result |-> "data"]

\* executeRequest started at t; the response arrives latency later.  result
\* is "data" for { data }, "null" for null, "threw" for an exception that
\* leaves the method
executeRequest(lim, t, subreddit, response, latency) ==
  LET counted == [lim EXCEPT !.totalRequestsThisRun = @ + 1, !.requests = @ + 1]
      answered == t + latency
  IN CASE response = "403" ->
            [lim |-> IF Truthy(subreddit)
                     THEN [counted EXCEPT !.blockedSubreddits = @ \cup {subreddit}]
                     ELSE counted,
             result |-> "null"]
       [] response = "429" ->
            [lim |-> [counted EXCEPT
                        !.lastRateLimitTime = answered,
                        !.rateLimitBackoffMs = Min(@ * 2, MaxBackoffMs)],
             result |-> "null"]
       \* throw new Error(`HTTP ...`) and a rejected fetch() end in the catch
       [] response \in {"500", "transport"} -> [lim |-> counted, result |-> "null"]
       \* the backoff is reset before response.json() rejects into the catch
       [] response = "unparsable" ->
            [lim |-> [counted EXCEPT !.rateLimitBackoffMs = BaseBackoffMs],
             result |-> "null"]
       [] response = "ok" ->
            [lim |-> [counted EXCEPT !.rateLimitBackoffMs = BaseBackoffMs],
             result |-> "data"]

\* request(url, options, subreddit, keyword) called at t: the fields after
\* the call, what it returned, whether an HTTP call was made and when it
\* started, how long the call slept first, and the time when it returned
request(lim, t, subreddit, keyword, response, latency) ==
  LET check == checkRequest(lim, t, subreddit, keyword)
  IN IF check.action = "stop"
     THEN [lim |-> check.lim, result |-> "null", issued |-> FALSE,
           startedAt |-> t, waited |-> 0, returnedAt |-> t]
     ELSE LET slept == IF check.action = "wait" /\ check.waitMs # 0
                       THEN check.waitMs ELSE 0
              exec  == executeRequest(check.lim, t + slept, subreddit, response, latency)
          IN [lim |-> exec.lim, result |-> exec.result, issued |-> TRUE,
              startedAt |-> t + slept, waited |-> slept,
              returnedAt |-> t + slept + latency]

(***************************************************************************)
(* State.                                                                  *)
(*   fKeywords  keywords of the fetchPosts call, as the caller gave them   *)
(*   fUnique    uniqueKeywords = deduplicateKeywords(keywords)             *)
(*   fWindow    timeWindow of the call (milliseconds)                      *)
(*   fChildren  response.data.data.children of the listing being processed *)
(*   fIdx       position of the for-loop in fChildren                      *)
(*   fLoc       local variables of fetchSubredditNew                       *)
(*   fPc        "start" | "loop" | "returned"                              *)
(*   dbEnabled  isDbEnabled: the Supabase client is configured             *)
(*   dbRuns     the runs table; the id of a row is its position            *)
(*   dbItems    the normalized_items table, in insertion order             *)
(*   feed       the children Reddit currently lists for the subreddit       *)
(*   run        the invocations of RedditDiscoveryRunner.run, each with    *)
(*              its position, request, runId, scraped posts, the locals of *)
(*              insertPosts and the result it resolved with; onlyStored    *)
(*              records whether, when insertPosts was called, every post   *)
(*              of the batch had its content hash in the table already,    *)
(*              and scraped whether scraper.fetchPosts has been called     *)
(*   clock      Date.now()                                                 *)
(*   limiter    the fields of one HttpRateLimiter instance                 *)
(*   calls      how many times request() has been called on it             *)
(*   caller     what the instance meets: the responses the server gives,   *)
(*              the subreddits asked for, the latency of a call and the    *)
(*              number of request() calls made                             *)
(*   hist       what has been observed of the instance: the last call of   *)
(*              request() and the HTTP calls issued so far                 *)
(*   scrape     a call of fetchPosts on the scraper that owns the limiter: *)
(*              its position, the caller's subreddits, targetSubreddits,   *)
(*              the loop index, the names passed to request() so far,      *)
(*              allPosts and the list returned                             *)
(***************************************************************************)
VARIABLES fKeywords, fUnique, fWindow, fChildren, fIdx, fLoc, fPc,
          dbEnabled, dbRuns, dbItems, feed, run,
          clock, limiter, calls, caller, hist, scrape

fetchVars == <<fKeywords, fUnique, fWindow, fChildren, fIdx, fLoc, fPc>>
storeVars == <<dbEnabled, dbRuns, dbItems, feed, run>>
limVars == <<clock, limiter, calls, caller, hist, scrape>>
vars == <<fetchVars, storeVars, limVars>>

(***************************************************************************)
(* Inputs: raw posts as Reddit's listing endpoint returns them.            *)
(***************************************************************************)
StringsOver(alphabet, lo, hi) == UNION {[1..k -> alphabet] : k \in lo..hi}

Str_ai      == <<"a","i">>
Str_AI      == <<"A","I">>
Str_go      == <<"g","o">>
Str_alice   == <<"a","l","i","c","e">>
Str_Bob     == <<"B","o","b">>
Str_unknown == <<"u","n","k","n","o","w","n">>
Str_hi      == <<"h","i">>
Str_mod     == <<"m","o","d">>
Id_a1       == <<"a","1">>
Id_b2       == <<"b","2">>
Title_AItips == <<"A","I"," ","t","i","p","s">>
Title_a_b    == <<"m","y"," ","a","_","b">>
Title_a_sp_b == <<"M","y"," ","A"," ","b">>
Title_gofast == <<"g","o"," ","f","a","s","t">>

\* "/r/<seg>/comments/<id>/"
Permalink(seg, id) ==
  <<"/","r","/">> \o seg \o <<"/","c","o","m","m","e","n","t","s","/">> \o id \o <<"/">>

\* the window of the call: [from, to] in milliseconds, to = ...:59.999
Window == [from |-> 2000, to |-> 8999]
\* a window given by the caller that ends on a full second
WindowOnSecond == [from |-> 2000, to |-> 8000]

BaseRaw ==
  [ id                  |-> Id_a1,
    title               |-> Title_AItips,
    selftext            |-> Str_hi,
    permalink           |-> Permalink(Str_ai, Id_a1),
    subreddit           |-> Str_ai,
    author              |-> Str_alice,
    created_utc         |-> 4,
    score               |-> 7,
    num_comments        |-> 3,
    removed_by_category |-> Null ]

\* community segments of a permalink and values of the subreddit field
SegAlphabet == {"a", "A", "b", " "}
Segs == StringsOver(SegAlphabet, 1, MaxSegLen)

MalformedPermalinks ==
  { Null, <<>>,
    <<"/","u","/","a","i","/">>,
    <<"/","r","/","a","i">>,
    <<"/","R","/","a","i","/">>,
    <<"/","r","/","/","a","i","/">> }

PermalinksE == {Permalink(seg, Id_a1) : seg \in Segs} \cup MalformedPermalinks
SubFieldsE  == {Null, <<>>} \cup Segs \cup {<<"r","/">> \o seg : seg \in Segs}

\* family E: permalink and subreddit field vary
FamilyE == {[BaseRaw EXCEPT !.permalink = p, !.subreddit = s] :
              p \in PermalinksE, s \in SubFieldsE}

\* family F: the other fields vary
PairsF ==
  { <<Permalink(Str_ai, Id_a1), Str_AI>>,
    <<Permalink(Str_AI, Id_a1), Null>>,
    <<Permalink(Str_go, Id_a1), Str_ai>>,
    <<Null, Str_ai>> }

FamilyF ==
  {[BaseRaw EXCEPT !.created_utc = t, !.selftext = st, !.removed_by_category = rm,
                   !.title = ti, !.author = au,
                   !.permalink = pr[1], !.subreddit = pr[2]] :
     t \in {1, 2, 4, 8, 9}, st \in {Null, <<>>, DeletedStr, Str_hi},
     rm \in {Null, Str_mod}, ti \in {Title_AItips, DeletedStr, Title_gofast},
     au \in {Null, <<>>, DeletedStr, Str_alice, Str_unknown}, pr \in PairsF}

\* family K: title and keyword list vary
TitlesK == {Title_AItips, Title_a_b, Title_a_sp_b, Title_gofast, <<>>}
KeywordSamples ==
  { Str_ai, Str_AI, <<" ","a","i"," ">>, <<"a","_","b">>, <<"A","-","b">>,
    <<"a"," ","b">>, <<"_","a","i">>, <<"z","z">>, <<>> }
KeywordLists == StringsOver(KeywordSamples, 1, MaxKeywords)
FamilyK == {[BaseRaw EXCEPT !.title = ti] : ti \in TitlesK}

\* listings of several children, one child per outcome of the pipeline
CoreRaw ==
  { BaseRaw,
    [BaseRaw EXCEPT !.id = Id_b2, !.permalink = Permalink(Str_AI, Id_b2),
                    !.subreddit = Str_AI, !.selftext = <<>>, !.author = Null,
                    !.created_utc = 2],
    [BaseRaw EXCEPT !.permalink = Permalink(<<" ","a","i">>, Id_a1), !.subreddit = Null],
    [BaseRaw EXCEPT !.created_utc = 9],
    [BaseRaw EXCEPT !.removed_by_category = Str_mod],
    [BaseRaw EXCEPT !.title = Title_gofast],
    [BaseRaw EXCEPT !.permalink = <<"/","u","/","a","i","/">>],
    [BaseRaw EXCEPT !.subreddit = Str_go] }
CoreListings == StringsOver(CoreRaw, 0, MaxChildren)

FetchInputs ==
  {[keywords |-> <<Str_ai>>, children |-> <<c>>, timeWindow |-> Window] : c \in FamilyE}
  \cup {[keywords |-> <<Str_ai>>, children |-> <<c>>, timeWindow |-> WindowOnSecond] :
          c \in FamilyF}
  \cup {[keywords |-> k, children |-> <<c>>, timeWindow |-> Window] :
          k \in KeywordLists, c \in FamilyK}
  \cup {[keywords |-> <<Str_AI, Str_ai>>, children |-> l, timeWindow |-> Window] :
          l \in CoreListings}

(***************************************************************************)
(* RedditDiscoveryRunner.run: requests and the listings the scrape meets.  *)
(***************************************************************************)
\* children in the listing of the subreddit
MaxBatch == 2

\* two invocations of run(), which interleave at their awaits
Procs == {"runA", "runB"}

\* request.runId || null
NoRunId == 0
\* the run the trigger created before calling the scraper, and an id no row has
ExistingRunId == 1
UnknownRunId  == 9

Id_c3 == <<"c","3">>
Id_d4 == <<"d","4">>
Id_e5 == <<"e","5">>
Id_f6 == <<"f","6">>
Id_g7 == <<"g","7">>

(***************************************************************************)
(* RedditDiscoveryRunner.parseWindow.                                      *)
(***************************************************************************)
DigitValue(c) ==
  CASE c = "0" -> 0 [] c = "1" -> 1 [] c = "2" -> 2 [] c = "3" -> 3 [] c = "4" -> 4
    [] c = "5" -> 5 [] c = "6" -> 6 [] c = "7" -> 7 [] c = "8" -> 8 [] c = "9" -> 9

RECURSIVE ParseDigits(_, _)
\* parseInt(digits, 10), read from the left
ParseDigits(digits, acc) ==
  IF digits = <<>> THEN acc
  ELSE ParseDigits(Tail(digits), acc * 10 + DigitValue(Head(digits)))

parseInt(digits) == ParseDigits(digits, 0)

\* window.match(/^(\d+)([hdw])$/): null, or the two groups
MatchWindow(window) ==
  IF /\ Len(window) >= 2
     /\ window[Len(window)] \in {"h", "d", "w"}
     /\ \A i \in 1..(Len(window) - 1) : window[i] \in DigitChars
  THEN [matched |-> TRUE, digits |-> SubSeq(window, 1, Len(window) - 1),
        unit |-> window[Len(window)]]
  ELSE [matched |-> FALSE]

\* Math.ceil(a / b) for a >= 0, b > 0
Ceil(a, b) == (a + b - 1) \div b

DefaultDays == 7

\* mutant: hours are rounded down to days
parseWindow_HoursFloor(window) ==
  LET match == MatchWindow(window)
  IN IF ~match.matched THEN DefaultDays
     ELSE LET value == parseInt(match.digits)
              unit  == match.unit
          IN CASE unit = "h" -> value \div 24
               [] unit = "d" -> value
               [] unit = "w" -> value * 7

parseWindow(window) ==
  LET match == MatchWindow(window)
  IN IF ~match.matched THEN DefaultDays
     ELSE LET value == parseInt(match.digits)
              unit  == match.unit
          IN CASE unit = "h" -> Ceil(value, 24)
               [] unit = "d" -> value
               [] unit = "w" -> value * 7

Str_7d == <<"7","d">>

\* a list the request does not carry (undefined)
Missing == <<Null>>

\* request.subreddits || [], request.keywords || []
OrEmpty(list) == IF list = Missing THEN <<>> ELSE list

\* mutant: only the subreddits are validated
ValidationError_SubredditsOnly(req) ==
  IF Len(OrEmpty(req.subreddits)) = 0 THEN "No subreddits provided"
  ELSE "none"

\* the two validations at the head of run(): the error of the failed result,
\* or "none" when the request passes
ValidationError(req) ==
  IF Len(OrEmpty(req.subreddits)) = 0 THEN "No subreddits provided"
  ELSE IF Len(OrEmpty(req.keywords)) = 0 THEN "No keywords provided"
  ELSE "none"

\* a list of a request: given, empty or missing
RequestLists == {<<Str_ai>>, <<>>, Missing}

\* request.window: a string, or null as the route passes it on from a body
\* that says "window": null
RequestWindows == {Str_7d, Null}

Requests ==
  { [runId |-> r, keywords |-> <<Str_ai>>, subreddits |-> <<Str_ai>>, window |-> w] :
      r \in {NoRunId, ExistingRunId, UnknownRunId}, w \in RequestWindows }
  \cup { [runId |-> r, keywords |-> k, subreddits |-> s, window |-> Str_7d] :
           r \in {NoRunId, ExistingRunId}, k \in RequestLists, s \in RequestLists }
  \cup { [runId |-> NoRunId, keywords |-> <<>>, subreddits |-> <<Str_ai>>, window |-> Null] }

\* the requests whose run reaches the scrape whatever the database says
StoreRequests ==
  {r \in Requests : /\ ValidationError(r) = "none"
                     /\ r.window # Null
                     /\ r.runId \in {NoRunId, ExistingRunId}}

\* the requests of the two invocations; which of the two gets which request
\* makes no difference
RequestPairs ==
  {[runA |-> a, runB |-> b] : a \in StoreRequests, b \in StoreRequests}
    \ {[runA |-> a, runB |-> b] : a \in {r \in StoreRequests : r.runId = NoRunId},
                                  b \in {r \in StoreRequests : r.runId # NoRunId}}

\* children a listing of /r/ai/new.json may carry
StoreRaw ==
  { \* link-only posts: no body text
    [BaseRaw EXCEPT !.id = Id_b2, !.permalink = Permalink(Str_AI, Id_b2),
                    !.subreddit = Str_AI, !.selftext = <<>>, !.author = Null,
                    !.created_utc = 3],
    [BaseRaw EXCEPT !.id = Id_c3, !.permalink = Permalink(Str_ai, Id_c3),
                    !.selftext = Null, !.created_utc = 5],
    \* a user whose name is "unknown"
    [BaseRaw EXCEPT !.id = Id_d4, !.permalink = Permalink(Str_ai, Id_d4),
                    !.author = Str_unknown, !.created_utc = 6],
    \* a community whose name is "unknown"
    [BaseRaw EXCEPT !.id = Id_e5, !.permalink = Permalink(Str_unknown, Id_e5),
                    !.subreddit = Str_unknown, !.created_utc = 7],
    \* a permalink that is not a comments page
    [BaseRaw EXCEPT !.id = Id_f6,
                    !.permalink = <<"/","r","/","a","i","/","w","i","k","i","/">>,
                    !.created_utc = 8],
    \* a permalink whose community segment is padded
    [BaseRaw EXCEPT !.id = Id_g7, !.permalink = Permalink(<<" ","a","i">>, Id_g7),
                    !.subreddit = Null, !.created_utc = 2] }

\* /new.json lists every post once, newest first
Feeds ==
  {l \in StringsOver(StoreRaw, 0, MaxBatch) :
     \A i, j \in 1..Len(l) : i < j => l[i].created_utc > l[j].created_utc}

\* request() returned null, or the listing of the subreddit
ScrapeResponses(listing) == {[ok |-> FALSE], [ok |-> TRUE, children |-> listing]}

NoResult == [runId |-> NoRunId, status |-> "none", postsFound |-> 0, error |-> "none"]

NoRequest == [runId |-> NoRunId, keywords |-> <<>>, subreddits |-> <<>>, window |-> Str_7d]

\* an invocation of run(input) that has not executed a statement yet
IdleRun(input) ==
  [ pc            |-> "idle",
    req           |-> input,
    runId         |-> NoRunId,
    posts         |-> <<>>,
    ins           |-> InitialInsertState,
    insertedCount |-> 0,
    onlyStored    |-> FALSE,
    scraped       |-> FALSE,
    days          |-> 0,
    result        |-> NoResult ]

RunningRow == [status |-> "running", total_results_count |-> 0]

\* the store as the admission pipeline's checks leave it untouched
StoreIdle ==
  /\ dbEnabled = FALSE
  /\ dbRuns = <<>>
  /\ dbItems = <<>>
  /\ feed = <<>>
  /\ run = [p \in Procs |-> IdleRun(NoRequest)]

\* the listing process as the runner's checks leave it untouched
FetchIdle ==
  /\ fKeywords = <<>>
  /\ fUnique = <<>>
  /\ fWindow = Window
  /\ fChildren = <<>>
  /\ fIdx = 1
  /\ fLoc = InitialLocals
  /\ fPc = "returned"

\* nothing has been observed of the limiter yet; httpStart and httpPrev are
\* the start times of the last two HTTP calls (0: none), forbiddenBefore the
\* subreddits answered with 403 in the run the last resetRun() ended, forbidden and
\* limited the subreddits answered with 403 and 429 since the last
\* resetRun(), streak429 the 429 responses since the last 2xx response,
\* httpRun the HTTP calls since the last resetRun(), recent the start times
\* of the HTTP calls of the last windowMs
NoHistory ==
  [ sub       |-> Null,
    response  |-> "none",
    result    |-> "none",
    issued    |-> FALSE,
    waited    |-> 0,
    httpStart |-> 0,
    httpPrev  |-> 0,
    forbidden |-> {},
    forbiddenBefore |-> {},
    limited   |-> {},
    streak429 |-> 0,
    httpRun   |-> 0,
    recent    |-> <<>> ]

NoCaller == [responses |-> {}, subs |-> {}, latencies |-> {}, maxCalls |-> 0]

\* fetchPosts(params) before its first statement
IdleScrape(subreddits) ==
  [ pc        |-> "start",
    subs      |-> subreddits,
    targets   |-> <<>>,
    idx       |-> 1,
    requested |-> <<>>,
    allPosts  |-> <<>>,
    returned  |-> <<>> ]

\* the limiter as the other processes leave it untouched
LimIdle ==
  /\ scrape = IdleScrape(<<>>)
  /\ clock = ConstructedAt
  /\ limiter = NewLimiter(ConstructedAt)
  /\ calls = 0
  /\ caller = NoCaller
  /\ hist = NoHistory

(***************************************************************************)
(* fetchPosts / fetchSubredditNew as a process.                            *)
(***************************************************************************)
InitFetch ==
  /\ \E inp \in FetchInputs :
       /\ fKeywords = inp.keywords
       /\ fChildren = inp.children
       /\ fWindow = inp.timeWindow
  /\ fUnique = <<>>
  /\ fIdx = 1
  /\ fLoc = InitialLocals
  /\ fPc = "start"
  /\ StoreIdle
  /\ LimIdle

\* fetchPosts up to the first iteration of fetchSubredditNew's loop
FetchStart ==
  /\ fPc = "start"
  /\ fUnique' = deduplicateKeywords(fKeywords)
  /\ fPc' = "loop"
  /\ UNCHANGED <<fKeywords, fWindow, fChildren, fIdx, fLoc, storeVars, limVars>>

\* one iteration of the loop of fetchSubredditNew
FetchChild ==
  /\ fPc = "loop"
  /\ fIdx <= Len(fChildren)
  /\ fLoc' = ProcessChild(fLoc, fChildren[fIdx], fUnique, fWindow)
  /\ fIdx' = fIdx + 1
  /\ UNCHANGED <<fKeywords, fUnique, fWindow, fChildren, fPc, storeVars, limVars>>

\* the loop is over: fetchSubredditNew returns fLoc.posts
FetchReturn ==
  /\ fPc = "loop"
  /\ fIdx > Len(fChildren)
  /\ fPc' = "returned"
  /\ UNCHANGED <<fKeywords, fUnique, fWindow, fChildren, fIdx, fLoc, storeVars, limVars>>

NextFetch == FetchStart \/ FetchChild \/ FetchReturn

SpecFetch == InitFetch /\ [][NextFetch]_vars

(***************************************************************************)
(* Vocabulary of the claims about the admission pipeline.                  *)
(***************************************************************************)
Range(f) == {f[i] : i \in DOMAIN f}

\* the child the last iteration of the loop processed
LastChild == fChildren[fIdx - 1]
LastAdmitted == fLoc.posts[Len(fLoc.posts)]

RejectionCounters ==
  {"skippedTimeWindow", "skippedDeleted", "skippedNoKeyword",
   "skippedNoSubreddit", "skippedCrossPost"}

InWindow(post) ==
  fWindow.from <= post.created_utc * 1000 /\ post.created_utc * 1000 <= fWindow.to

\* the permalink has the form /r/<P>/...
HasCommunityPermalink(post) ==
  post.permalink # Null /\ PermalinkMatch(post.permalink) # Null

\* title contains keyword kw, ignoring letter case
TitleContains(post, kw) == includes(toLowerCase(post.title), toLowerCase(kw))

\* lowercase, trimmed, without a leading "r/"
Canonical(s) ==
  LET t == trim(toLowerCase(s))
  IN IF Len(t) >= 2 /\ t[1] = "r" /\ t[2] = "/" THEN SubSeq(t, 3, Len(t)) ELSE t

CrossPostResult == [subreddit |-> Null, isCrossPost |-> TRUE]

----------------------------------------------------------------------------
\* C1: every raw post processed by fetchSubredditNew has exactly one outcome:
\* either exactly one NormalizedPost is appended to the result and no rejection
\* counter moves, or the result is untouched and exactly one of the five
\* rejection counters goes up by one.
C1_ExactlyOneOutcome ==
  [][ fIdx' = fIdx + 1 =>
        \/ /\ fLoc'.posts # fLoc.posts
           /\ Len(fLoc'.posts) = Len(fLoc.posts) + 1
           /\ SubSeq(fLoc'.posts, 1, Len(fLoc.posts)) = fLoc.posts
           /\ \A c \in RejectionCounters : fLoc'[c] = fLoc[c]
        \/ /\ fLoc'.posts = fLoc.posts
           /\ \E c \in RejectionCounters :
                /\ fLoc'[c] = fLoc[c] + 1
                /\ \A d \in RejectionCounters \ {c} : fLoc'[d] = fLoc[d]
    ]_vars

\* a listing of two children, one admitted and one rejected, fully processed
C1_Witness ==
  /\ fPc = "returned"
  /\ Len(fChildren) = 2
  /\ Len(fLoc.posts) = 1
  /\ fLoc.skippedCrossPost = 1

----------------------------------------------------------------------------
\* C2 (as stated): with a permalink /r/<P>/... and a string subreddit field S,
\* extractSubreddit returns {null, isCrossPost: true} exactly when P and S
\* differ after lowercasing and trimming, and a post with such a difference is
\* not admitted.
C2_Original ==
  (fIdx > 1 /\ fLoc.reached \in {"subreddit", "admitted"}) =>
    LET post   == LastChild
        differ == trim(toLowerCase(PermalinkMatch(post.permalink)))
                    # trim(toLowerCase(post.subreddit))
    IN (HasCommunityPermalink(post) /\ post.subreddit # Null) =>
         /\ (fLoc.extraction = CrossPostResult) <=> differ
         /\ differ => fLoc.reached # "admitted"

\* C2 (amended): with a permalink /r/<P>/... whose P is not blank and a
\* non-empty string subreddit field S, extractSubreddit returns
\* {null, isCrossPost: true} exactly when P and S differ after lowercasing,
\* trimming and removing a leading "r/"; values that differ only in letter
\* case are equal, and a mismatching post is never admitted.
C2_CrossPostIffCanonicalDiffer ==
  (fIdx > 1 /\ fLoc.reached \in {"subreddit", "admitted"}) =>
    LET post == LastChild
        P    == PermalinkMatch(post.permalink)
        S    == post.subreddit
    IN (HasCommunityPermalink(post) /\ trim(P) # <<>> /\ S # Null /\ S # <<>>) =>
         /\ (fLoc.extraction = CrossPostResult) <=> (Canonical(P) # Canonical(S))
         /\ toLowerCase(P) = toLowerCase(S) => fLoc.extraction # CrossPostResult
         /\ Canonical(P) # Canonical(S) =>
              /\ fLoc.reached = "subreddit"
              /\ fLoc.skippedCrossPost >= 1

\* a cross-community post was rejected, and its two values are not a case variant
C2_Witness ==
  /\ fIdx > 1
  /\ fLoc.reached = "subreddit"
  /\ fLoc.extraction = CrossPostResult
  /\ fLoc.skippedCrossPost = 1
  /\ HasCommunityPermalink(LastChild)
  /\ LastChild.subreddit = Str_go
  /\ PermalinkMatch(LastChild.permalink) = Str_ai

----------------------------------------------------------------------------
\* the keywords of the caller that the title contains, ignoring case
CallerKeywordsIn(post) == {kw \in Range(fKeywords) : TitleContains(post, kw)}
\* the normalized keywords of the caller that the lowercased title contains
NormalizedKeywordsIn(post) ==
  {normalizeKeyword(kw) : kw \in
     {k \in Range(fKeywords) : includes(toLowerCase(post.title), normalizeKeyword(k))}}

\* C3 (as stated): a post in the window, not deleted or removed, whose title
\* contains a configured keyword, with permalink /r/<X>/ and subreddit field
\* equal to X ignoring case, is admitted with raw.subreddit and sourceContext
\* equal to lowercase X, author equal to the raw author and keywordsMatched
\* equal to the matching keywords.
C3_Original ==
  fIdx > 1 =>
    LET post == LastChild
        X    == PermalinkMatch(post.permalink)
    IN ( /\ InWindow(post)
         /\ ~IsDeletedOrRemoved(post)
         /\ CallerKeywordsIn(post) # {}
         /\ HasCommunityPermalink(post)
         /\ post.subreddit # Null
         /\ toLowerCase(post.subreddit) = toLowerCase(X) ) =>
       /\ fLoc.reached = "admitted"
       /\ LastAdmitted.raw.subreddit = toLowerCase(X)
       /\ LastAdmitted.sourceContext = toLowerCase(X)
       /\ LastAdmitted.author = post.author
       /\ Range(LastAdmitted.keywordsMatched) = CallerKeywordsIn(post)

\* C3 (amended): a post in the window, not deleted or removed, whose lowercased
\* title contains a normalized configured keyword, with permalink /r/<X>/ where
\* X is not blank and a subreddit field equal to X ignoring case, is admitted
\* with raw.subreddit equal to lowercase trimmed X, sourceContext equal to
\* "r/" followed by it, author equal to the raw author (or "[deleted]" when
\* the raw author is missing or empty) and keywordsMatched equal to the
\* normalized keywords the title contains.
C3_AdmittedScenario ==
  fIdx > 1 =>
    LET post == LastChild
        X    == PermalinkMatch(post.permalink)
    IN ( /\ InWindow(post)
         /\ ~IsDeletedOrRemoved(post)
         /\ NormalizedKeywordsIn(post) # {}
         /\ HasCommunityPermalink(post)
         /\ trim(X) # <<>>
         /\ post.subreddit # Null
         /\ toLowerCase(post.subreddit) = toLowerCase(X) ) =>
       /\ fLoc.reached = "admitted"
       /\ LastAdmitted.id = post.id
       /\ LastAdmitted.raw.subreddit = trim(toLowerCase(X))
       /\ LastAdmitted.sourceContext = <<"r","/">> \o trim(toLowerCase(X))
       /\ LastAdmitted.author =
            (IF post.author \in {Null, <<>>} THEN DeletedStr ELSE post.author)
       /\ Range(LastAdmitted.keywordsMatched) = NormalizedKeywordsIn(post)

\* the scenario with a case difference (/r/ai/ with field "AI") and no author
C3_Witness ==
  /\ fIdx > 1
  /\ fLoc.reached = "admitted"
  /\ InWindow(LastChild)
  /\ PermalinkMatch(LastChild.permalink) = Str_ai
  /\ LastChild.subreddit = Str_AI
  /\ LastChild.author = Null
  /\ LastAdmitted.author = DeletedStr
  /\ LastAdmitted.raw.subreddit = Str_ai

----------------------------------------------------------------------------
\* C4 (as stated): every NormalizedPost admitted by fetchSubredditNew has a URL
\* that contains "/r/<subreddit>/" ignoring case, where <subreddit> is its
\* resolved raw.subreddit, which is lowercase, trimmed and not empty.
C4_AdmittedUrlNamesSubreddit ==
  \A i \in 1..Len(fLoc.posts) :
    LET p == fLoc.posts[i]
    IN /\ p.raw.subreddit # <<>>
       /\ p.raw.subreddit = trim(toLowerCase(p.raw.subreddit))
       /\ includes(toLowerCase(p.url), <<"/","r","/">> \o p.raw.subreddit \o <<"/">>)

----------------------------------------------------------------------------
\* C10 (as stated): a post passes the keyword check if and only if its title
\* contains, ignoring case, at least one keyword as the caller configured it;
\* keywordsMatched of an admitted post is non-empty and is exactly the set of
\* configured keywords that match the title.
C10_Original ==
  (fIdx > 1 /\ fLoc.reached \in {"keyword", "subreddit", "admitted"}) =>
    /\ (fLoc.reached # "keyword") <=> (CallerKeywordsIn(LastChild) # {})
    /\ fLoc.reached = "admitted" =>
         /\ LastAdmitted.keywordsMatched # <<>>
         /\ Range(LastAdmitted.keywordsMatched) = CallerKeywordsIn(LastChild)

\* C10 (amended): a post passes the keyword check if and only if its lowercased
\* title contains at least one of the caller's keywords after normalizeKeyword
\* (lowercased, trimmed, "_" and "-" replaced by spaces, whitespace collapsed);
\* keywordsMatched of an admitted post is non-empty, has no duplicates and is
\* exactly the set of normalized keywords the title contains.
C10_KeywordCheck ==
  (fIdx > 1 /\ fLoc.reached \in {"keyword", "subreddit", "admitted"}) =>
    /\ (fLoc.reached # "keyword") <=> (NormalizedKeywordsIn(LastChild) # {})
    /\ fLoc.reached = "admitted" =>
         LET km == LastAdmitted.keywordsMatched
         IN /\ km # <<>>
            /\ Range(km) = NormalizedKeywordsIn(LastChild)
            /\ \A i, j \in 1..Len(km) : km[i] = km[j] => i = j

\* keyword "A-b" matched title "My A b" through its normalized form "a b"
C10_Witness ==
  /\ fIdx > 1
  /\ fLoc.reached = "admitted"
  /\ LastChild.title = Title_a_sp_b
  /\ <<"A","-","b">> \in Range(fKeywords)
  /\ <<"a"," ","b">> \in Range(LastAdmitted.keywordsMatched)

----------------------------------------------------------------------------
\* C11: isWithinWindow(date, from, to) is true exactly when from <= date <= to,
\* both bounds included: the loop rejects a child for its date exactly when
\* the date is outside [from, to]; every admitted post has createdAt inside
\* the window, and a child dated one second after 'to' is rejected.
C11_WindowInclusive ==
  /\ \A k \in 1..Len(fLoc.posts) :
       fWindow.from <= fLoc.posts[k].createdAt /\ fLoc.posts[k].createdAt <= fWindow.to
  /\ fIdx > 1 =>
       LET date == LastChild.created_utc * 1000
       IN /\ isWithinWindow(date, fWindow.from, fWindow.to)
               <=> (fWindow.from <= date /\ date <= fWindow.to)
          /\ (fLoc.reached = "window") <=> ~(fWindow.from <= date /\ date <= fWindow.to)
          /\ date = fWindow.to + 1000 =>
               /\ fLoc.reached = "window"
               /\ fLoc.skippedTimeWindow >= 1
               /\ fLoc.posts = <<>>

\* a child dated exactly 'to' is admitted
C11_Witness ==
  /\ fIdx > 1
  /\ LastChild.created_utc * 1000 = fWindow.to
  /\ fLoc.reached = "admitted"
  /\ LastAdmitted.createdAt = fWindow.to

----------------------------------------------------------------------------
\* C12 (as stated): extractAuthor gives '[deleted]' for a missing, empty or
\* '[deleted]' raw author and the raw author unchanged otherwise, and the
\* author of an admitted post is never empty, undefined or 'unknown'.
C12_AuthorNeverUnknown ==
  /\ \A k \in 1..Len(fLoc.posts) :
       fLoc.posts[k].author \notin {Null, <<>>, Str_unknown}
  /\ (fIdx > 1 /\ fLoc.reached = "admitted") =>
       LastAdmitted.author =
         (IF LastChild.author \in {Null, <<>>, DeletedStr}
          THEN DeletedStr ELSE LastChild.author)

(***************************************************************************)
(* RedditDiscoveryRunner.run as a process; several invocations interleave  *)
(* at their awaits.                                                        *)
(***************************************************************************)
InitStore ==
  /\ FetchIdle
  /\ LimIdle
  /\ dbEnabled \in BOOLEAN
  /\ dbRuns = IF dbEnabled THEN <<RunningRow>> ELSE <<>>
  /\ dbItems = <<>>
  /\ feed \in Feeds
  /\ \E pair \in RequestPairs : run = [p \in Procs |-> IdleRun(pair[p])]

\* some row of normalized_items carries this content hash
Stored(hash) == \E i \in 1..Len(dbItems) : dbItems[i].content_hash = hash

Failed(message) ==
  [runId |-> NoRunId, status |-> "failed", postsFound |-> 0, error |-> message]

\* run() rejected: the promise it returned carries no result
Rejected ==
  [runId |-> NoRunId, status |-> "rejected", postsFound |-> 0, error |-> "TypeError"]

\* run() up to the scrape: the request is validated, then a provided runId is
\* looked up or a row is created in runs; created says whether the insert
\* into runs (or its retry without platforms_status) succeeded
RunBegin(p) ==
  /\ run[p].pc = "idle"
  /\ \E created \in BOOLEAN :
       LET req == run[p].req
       IN
       IF ValidationError(req) # "none"
       THEN /\ created
            /\ UNCHANGED dbRuns
            /\ run' = [run EXCEPT ![p] = [@ EXCEPT !.pc = "done",
                         !.result = Failed(ValidationError(req))]]
       ELSE IF req.window = Null
       THEN \* window.match is read off null: a TypeError outside the try block
            /\ created
            /\ UNCHANGED dbRuns
            /\ run' = [run EXCEPT ![p] = [@ EXCEPT !.pc = "done", !.result = Rejected]]
       ELSE IF req.runId # NoRunId
       THEN /\ created
            /\ UNCHANGED dbRuns
            /\ run' = [run EXCEPT ![p] =
                 IF dbEnabled /\ req.runId \notin 1..Len(dbRuns)
                 THEN [@ EXCEPT !.pc = "done", !.days = parseWindow(req.window),
                                !.result = Failed("Provided runId not found in database")]
                 ELSE [@ EXCEPT !.pc = "scrape", !.days = parseWindow(req.window),
                                !.runId = req.runId]]
       ELSE IF dbEnabled /\ created
       THEN /\ dbRuns' = Append(dbRuns, RunningRow)
            /\ run' = [run EXCEPT ![p] = [@ EXCEPT !.pc = "scrape",
                                                   !.days = parseWindow(req.window),
                                                   !.runId = Len(dbRuns) + 1]]
       ELSE /\ dbEnabled \/ created
            /\ UNCHANGED dbRuns
            /\ run' = [run EXCEPT ![p] = [@ EXCEPT !.pc = "scrape",
                                                   !.days = parseWindow(req.window)]]
  /\ UNCHANGED <<fetchVars, limVars, dbEnabled, dbItems, feed>>

\* scraper.fetchPosts over the one requested subreddit, then the choice
\* between inserting and going straight to the update of the run
RunScrape(p) ==
  /\ run[p].pc = "scrape"
  /\ \E resp \in ScrapeResponses(feed) :
       LET posts == fetchPosts(<<resp>>, OrEmpty(run[p].req.keywords), Window)
       IN run' = [run EXCEPT ![p].posts = posts,
                             ![p].scraped = TRUE,
                             ![p].onlyStored = \A k \in 1..Len(posts) :
                                                 Stored(Md5Hex(ContentHashInput(posts[k]))),
                             ![p].pc = IF dbEnabled /\ run[p].runId # NoRunId
                                          /\ Len(posts) > 0
                                       THEN "insert" ELSE "finish"]
  /\ UNCHANGED <<fetchVars, limVars, dbEnabled, dbRuns, dbItems, feed>>

\* one iteration of the loop of insertPosts; after the last one insertPosts
\* returns successCount
InsertPost(p) ==
  /\ run[p].pc = "insert"
  /\ run[p].ins.idx <= Len(run[p].posts)
  /\ \E fault \in InsertFaults :
       LET r == InsertIteration(run[p].ins, run[p].posts, run[p].runId, dbItems, fault)
       IN /\ run' = [run EXCEPT ![p] =
                 IF r.st.idx > Len(run[p].posts)
                 THEN [@ EXCEPT !.ins = r.st, !.insertedCount = r.st.successCount,
                                !.pc = "finish"]
                 ELSE [@ EXCEPT !.ins = r.st]]
          /\ dbItems' = r.items
  /\ UNCHANGED <<fetchVars, limVars, dbEnabled, dbRuns, feed>>

\* the run row is set to completed (updated says whether the update, or its
\* retry without platforms_status, succeeded) and run() resolves
RunFinish(p) ==
  /\ run[p].pc = "finish"
  /\ \E updated \in BOOLEAN :
       IF dbEnabled /\ run[p].runId # NoRunId
       THEN IF updated
            THEN dbRuns' = [dbRuns EXCEPT ![run[p].runId] =
                              [status |-> "completed",
                               total_results_count |-> Len(run[p].posts)]]
            ELSE UNCHANGED dbRuns
       ELSE updated /\ UNCHANGED dbRuns
  /\ run' = [run EXCEPT ![p].pc = "done",
                        ![p].result = [runId |-> run[p].runId, status |-> "completed",
                                       postsFound |-> Len(run[p].posts),
                                       error |-> "none"]]
  /\ UNCHANGED <<fetchVars, limVars, dbEnabled, dbItems, feed>>

NextStore ==
  \E p \in Procs :
    \/ RunBegin(p)
    \/ RunScrape(p)
    \/ InsertPost(p)
    \/ RunFinish(p)

SpecStore == InitStore /\ [][NextStore]_vars

\* an exception inside the try block of run(): the lookup of the runId or the
\* insert into runs rejects, fetchPosts throws on a listing it cannot read,
\* or the update to 'completed' rejects.  insertPosts has its own try/catch
\* and never throws.
RunThrow(p) ==
  /\ \/ /\ run[p].pc = "idle"
        /\ ValidationError(run[p].req) = "none"
        /\ run[p].req.window # Null
        /\ dbEnabled
     \/ run[p].pc = "scrape"
     \/ /\ run[p].pc = "finish"
        /\ dbEnabled
        /\ run[p].runId # NoRunId
  /\ run' = [run EXCEPT ![p].pc = "catch",
                        ![p].days = parseWindow(run[p].req.window),
                        ![p].runId = IF run[p].pc = "idle" THEN run[p].req.runId ELSE @]
  /\ UNCHANGED <<fetchVars, limVars, dbEnabled, dbRuns, dbItems, feed>>

\* the catch block of run(): the run is updated to 'failed' when there is a
\* runId, and the failed result is returned; updated says whether the update
\* (or its retry without platforms_status) succeeded
RunCatch(p) ==
  /\ run[p].pc = "catch"
  /\ \E updated \in BOOLEAN :
       IF dbEnabled /\ run[p].runId # NoRunId
       THEN IF updated /\ run[p].runId \in 1..Len(dbRuns)
            THEN dbRuns' = [dbRuns EXCEPT ![run[p].runId].status = "failed"]
            ELSE UNCHANGED dbRuns
       ELSE updated /\ UNCHANGED dbRuns
  /\ run' = [run EXCEPT ![p].pc = "done",
                        ![p].result = [runId |-> run[p].runId, status |-> "failed",
                                       postsFound |-> 0, error |-> "thrown"]]
  /\ UNCHANGED <<fetchVars, limVars, dbEnabled, dbItems, feed>>

\* run() with the exceptions of its try block
NextRun ==
  \/ NextStore
  \/ \E p \in Procs : RunThrow(p)
  \/ \E p \in Procs : RunCatch(p)

\* the listings of at most one child
RunFeeds == {l \in Feeds : Len(l) <= 1}

\* run() called with any request, next to an invocation whose request passes
\* the validation
InitRun ==
  /\ FetchIdle
  /\ LimIdle
  /\ dbEnabled \in BOOLEAN
  /\ dbRuns = IF dbEnabled THEN <<RunningRow>> ELSE <<>>
  /\ dbItems = <<>>
  /\ feed \in RunFeeds
  /\ \E a \in Requests, b \in StoreRequests :
       run = [p \in Procs |-> IdleRun(IF p = "runA" THEN a ELSE b)]

SpecRun == InitRun /\ [][NextRun]_vars

(***************************************************************************)
(* Vocabulary of the claims about the store writer.                        *)
(***************************************************************************)
\* insertPosts was called by this invocation and has returned
InsertReturned(p) == run[p].pc \in {"finish", "done"} /\ Len(run[p].ins.log) > 0

\* outcomes of iterations that reached the insert call
AttemptOutcomes == {"inserted", "duplicate", "failed", "threw"}
SkipOutcomes == {"invalid", "noSubreddit", "urlMismatch"}

CountOf(log, kinds) == Cardinality({k \in 1..Len(log) : log[k] \in kinds})

----------------------------------------------------------------------------
\* C5: after any sequence of insertPosts calls, also from interleaved runs,
\* the table holds at most one row per content hash; a post whose hash is
\* already stored adds no row (every row stems from one successful insert),
\* and a call that submitted only already-stored posts returns 0.
C5_OneRowPerFingerprint ==
  /\ \A i, j \in 1..Len(dbItems) :
       dbItems[i].content_hash = dbItems[j].content_hash => i = j
  /\ \A p \in Procs : run[p].ins.successCount = CountOf(run[p].ins.log, {"inserted"})
  /\ Len(dbItems) = CountOf(run["runA"].ins.log, {"inserted"})
                      + CountOf(run["runB"].ins.log, {"inserted"})
  /\ \A p \in Procs :
       (InsertReturned(p) /\ run[p].onlyStored) => run[p].insertedCount = 0

\* the second run submitted only posts the first had stored, and got 0
C5_Witness ==
  \E p \in Procs :
    /\ InsertReturned(p)
    /\ run[p].onlyStored
    /\ run[p].insertedCount = 0
    /\ "duplicate" \in Range(run[p].ins.log)
    /\ Len(dbItems) = 2

----------------------------------------------------------------------------
\* the post the next iteration of p's loop handles collides with a stored row
Collides(p) ==
  /\ run[p].pc = "insert"
  /\ run[p].ins.idx <= Len(run[p].posts)
  /\ Stored(Md5Hex(ContentHashInput(run[p].posts[run[p].ins.idx])))

\* C6: when insertPosts submits a post whose content hash collides with a
\* stored row, the table is left as it was (every field of every row,
\* run_id included) and successCount does not move; no step ever changes or
\* removes an existing row.
C6_CollisionLeavesStore ==
  [][ /\ \A i \in 1..Len(dbItems) : Len(dbItems') >= i /\ dbItems'[i] = dbItems[i]
      /\ \A p \in Procs :
           (Collides(p) /\ run'[p].ins.idx # run[p].ins.idx) =>
             /\ dbItems' = dbItems
             /\ run'[p].ins.successCount = run[p].ins.successCount
             /\ run'[p].ins.log[Len(run'[p].ins.log)] \in SkipOutcomes \cup {"duplicate", "threw"}
    ]_vars

\* a post was refused as a duplicate of a row another run wrote
C6_Witness ==
  \E p \in Procs, k \in 1..MaxBatch + 1, i \in 1..Len(dbItems) :
    /\ k <= Len(run[p].ins.log)
    /\ run[p].ins.log[k] = "duplicate"
    /\ dbItems[i].source_id = run[p].posts[k].id
    /\ dbItems[i].run_id # run[p].runId

----------------------------------------------------------------------------
\* C7: when the insert of one post fails (constraint violation, another
\* error of the call, or an exception caught in the iteration), insertPosts
\* still handles every remaining post in order, returns the number of posts
\* whose insert succeeded, and run() resolves with status "completed".
C7_FailureDoesNotStopBatch ==
  \A p \in Procs :
    /\ run[p].pc = "insert" => Len(run[p].ins.log) = run[p].ins.idx - 1
    /\ InsertReturned(p) =>
         /\ Len(run[p].ins.log) = Len(run[p].posts)
         /\ run[p].insertedCount = CountOf(run[p].ins.log, {"inserted"})
         /\ \A k \in 1..Len(run[p].ins.log) :
              run[p].ins.log[k] = "inserted" =>
                \E i \in 1..Len(dbItems) :
                  /\ dbItems[i].source_id = run[p].posts[k].id
                  /\ dbItems[i].run_id = run[p].runId
    /\ (run[p].pc = "done" /\ Len(run[p].ins.log) > 0) =>
         /\ run[p].result.status = "completed"
         /\ run[p].result.postsFound = Len(run[p].posts)

\* the first iteration ended in an error or an exception, the second
\* inserted its post, the run completed
C7_Witness ==
  \E p \in Procs :
    /\ run[p].pc = "done"
    /\ Len(run[p].ins.log) = 2
    /\ run[p].ins.log[1] \in {"failed", "threw", "duplicate"}
    /\ \E q \in Procs : "threw" \in Range(run[q].ins.log)
    /\ run[p].ins.log[2] = "inserted"
    /\ run[p].insertedCount = 1
    /\ run[p].result.status = "completed"

----------------------------------------------------------------------------
\* what the validation gate is to keep out of the table
FailsGate(post) ==
  \/ post.author = Str_unknown
  \/ post.url \in {Null, <<>>}
  \/ includes(post.url, Str_r_unknown)
  \/ ~MatchesPostUrl(post.url)

----------------------------------------------------------------------------
\* posts of a batch that reached the insert call
Attempted(p) ==
  {run[p].posts[k] : k \in {j \in 1..Len(run[p].ins.log) :
                              run[p].ins.log[j] \in AttemptOutcomes}}

NoContent(post) == post.content = <<>>

\* C9: two posts with empty content and different ids are hashed from
\* different strings, so neither is refused as a duplicate of the other: an
\* empty-content post is refused as a duplicate only when a row with its own
\* source id is stored.
C9_EmptyContentDistinct ==
  /\ \A p, q \in Procs : \A a \in Attempted(p), b \in Attempted(q) :
       (NoContent(a) /\ NoContent(b) /\ a.id # b.id) =>
         /\ ContentHashInput(a) # ContentHashInput(b)
         /\ Md5Hex(ContentHashInput(a)) # Md5Hex(ContentHashInput(b))
  /\ \A p \in Procs : \A k \in 1..Len(run[p].ins.log) :
       (run[p].ins.log[k] = "duplicate" /\ NoContent(run[p].posts[k])) =>
         \E i \in 1..Len(dbItems) :
           dbItems[i].source_id = run[p].posts[k].id /\ dbItems[i].content = <<>>

\* two link-only posts with different ids are both stored
C9_Witness ==
  \E i, j \in 1..Len(dbItems) :
    /\ dbItems[i].content = <<>>
    /\ dbItems[j].content = <<>>
    /\ dbItems[i].source_id # dbItems[j].source_id
    /\ dbItems[i].content_hash # dbItems[j].content_hash

(***************************************************************************)
(* One HttpRateLimiter instance as a process: its owner calls resetRun()   *)
(* and request() one call after the other (fetchPosts awaits each request  *)
(* before the next).                                                       *)
(***************************************************************************)
\* request() calls made on the instance
MaxCalls == 3

\* the subreddits requested
Subs == {Str_ai, Str_go}

\* milliseconds from fetch() to its response
Latencies == {300}

\* milliseconds between the construction of the limiter and its first use
FirstUseDelays == {0, 50000}

\* the start times in times that lie less than windowMs before t
StartsWithin(times, t) ==
  LET Recent(x) == x > t - windowMs
  IN SelectSeq(times, Recent)

Min3(n) == IF n < 3 THEN n ELSE 3

\* the history after a call of request() for sub that met response
Observe(h, sub, response, r) ==
  IF ~r.issued
  THEN [h EXCEPT !.sub = sub, !.response = "none", !.result = r.result,
                 !.issued = FALSE, !.waited = 0]
  ELSE [h EXCEPT
          !.sub       = sub,
          !.response  = response,
          !.result    = r.result,
          !.issued    = TRUE,
          !.waited    = r.waited,
          !.httpStart = r.startedAt,
          !.httpPrev  = h.httpStart,
          !.forbidden = IF response = "403" THEN @ \cup {sub} ELSE @,
          !.limited   = IF response = "429" THEN @ \cup {sub} ELSE @,
          !.streak429 = IF response = "429" THEN Min3(@ + 1)
                        ELSE IF response \in {"ok", "unparsable"} THEN 0 ELSE @,
          !.httpRun   = @ + 1,
          !.recent    = Append(StartsWithin(@, r.startedAt), r.startedAt)]

InitLimiter ==
  /\ FetchIdle
  /\ StoreIdle
  /\ \E delay \in FirstUseDelays : clock = ConstructedAt + delay
  /\ limiter = NewLimiter(ConstructedAt)
  /\ calls = 0
  /\ caller = [responses |-> Responses, subs |-> Subs, latencies |-> Latencies,
               maxCalls |-> MaxCalls]
  /\ hist = NoHistory
  /\ scrape = IdleScrape(<<>>)

\* a caller that exhausts the budget of a run: every call is answered, with
\* a listing or with a server error
InitBudget ==
  /\ FetchIdle
  /\ StoreIdle
  /\ \E delay \in FirstUseDelays : clock = ConstructedAt + delay
  /\ limiter = NewLimiter(ConstructedAt)
  /\ calls = 0
  /\ caller = [responses |-> {"ok", "500"}, subs |-> {Str_ai}, latencies |-> Latencies,
               maxCalls |-> maxRequestsPerRun + 2]
  /\ hist = NoHistory
  /\ scrape = IdleScrape(<<>>)

\* rateLimiter.resetRun() at the start of a fetchPosts
LimResetRun ==
  /\ calls < caller.maxCalls
  /\ limiter' = resetRun(limiter, clock)
  /\ hist' = [hist EXCEPT !.forbidden = {}, !.forbiddenBefore = hist.forbidden,
                          !.limited = {}, !.httpRun = 0]
  /\ UNCHANGED <<clock, calls, caller, scrape, fetchVars, storeVars>>

\* rateLimiter.request(url, options, subreddit) from fetchSubredditNew, from
\* the call to its return
LimRequest ==
  /\ calls < caller.maxCalls
  /\ \E sub \in caller.subs, response \in caller.responses, latency \in caller.latencies :
       LET r == request(limiter, clock, sub, Null, response, latency)
       IN /\ limiter' = r.lim
          /\ clock' = r.returnedAt
          /\ hist' = Observe(hist, sub, response, r)
  /\ calls' = calls + 1
  /\ UNCHANGED <<caller, scrape, fetchVars, storeVars>>

NextLimiter == LimResetRun \/ LimRequest

SpecLimiter == InitLimiter /\ [][NextLimiter]_vars

SpecBudget == InitBudget /\ [][NextLimiter]_vars

(***************************************************************************)
(* RedditScraperLocal.fetchPosts as a process: the loop over the           *)
(* subreddits, one request() per iteration on the scraper's limiter.       *)
(***************************************************************************)
\* entries of the caller's subreddits list
MaxSubs == 2

Str_r_ai   == <<"r","/","a","i">>
Str_ai_pad == <<"a","i"," ">>

\* a name, a name with the r/ prefix, a name followed by a blank, another name
SubredditEntries == {Str_ai, Str_r_ai, Str_ai_pad, Str_go}

SubredditLists == StringsOver(SubredditEntries, 0, MaxSubs) \cup {Missing}

\* what the server answers to a listing request
ScrapeAnswers == {"ok", "403", "500"}

Post_a1 == BaseRaw
Post_b2 == [BaseRaw EXCEPT !.id = Id_b2, !.permalink = Permalink(Str_ai, Id_b2),
                           !.created_utc = 3]
Post_c3 == [BaseRaw EXCEPT !.id = Id_c3, !.permalink = Permalink(Str_ai, Id_c3),
                           !.created_utc = 5]

\* the listings a subreddit answers with: posts may be listed again by the
\* next request (with the score they have by then), and a post without the
\* keyword is not admitted
ScrapeListings ==
  { <<Post_a1>>,
    <<Post_c3, [Post_a1 EXCEPT !.score = 9]>>,
    <<Post_b2>>,
    <<[BaseRaw EXCEPT !.id = Id_d4, !.title = Title_gofast]>> }

\* mutant: a name that occurs twice is requested once
TargetSubreddits_Distinct(subreddits) ==
  FilterFirst([i \in 1..Len(subreddits) |-> cleanSubredditName(subreddits[i])], {})

\* subreddits.map(cleanSubredditName)
TargetSubreddits(subreddits) ==
  [i \in 1..Len(subreddits) |-> cleanSubredditName(subreddits[i])]

InitScrape ==
  /\ FetchIdle
  /\ StoreIdle
  /\ \E delay \in FirstUseDelays : clock = ConstructedAt + delay
  /\ limiter = NewLimiter(ConstructedAt)
  /\ calls = 0
  /\ caller = NoCaller
  /\ hist = NoHistory
  /\ \E subreddits \in SubredditLists : scrape = IdleScrape(subreddits)

\* fetchPosts up to the loop: the list is validated, the names are cleaned
\* and the limiter's run state is reset
ScrapeStart ==
  /\ scrape.pc = "start"
  /\ IF scrape.subs = Missing \/ Len(scrape.subs) = 0
     THEN /\ scrape' = [scrape EXCEPT !.pc = "threw"]
          /\ UNCHANGED <<limiter, hist>>
     ELSE /\ scrape' = [scrape EXCEPT !.pc = "loop",
                                      !.targets = TargetSubreddits(scrape.subs)]
          /\ limiter' = resetRun(limiter, clock)
          /\ hist' = [hist EXCEPT !.forbidden = {}, !.forbiddenBefore = hist.forbidden,
                          !.limited = {}, !.httpRun = 0]
  /\ UNCHANGED <<clock, calls, caller, fetchVars, storeVars>>

\* one iteration of the loop: fetchSubredditNew for the next subreddit
ScrapeSubreddit ==
  /\ scrape.pc = "loop"
  /\ scrape.idx <= Len(scrape.targets)
  /\ \E response \in ScrapeAnswers, latency \in Latencies, listing \in ScrapeListings :
       LET sub == scrape.targets[scrape.idx]
           r == request(limiter, clock, sub, Null, response, latency)
           posts == IF r.result = "data"
                    THEN fetchSubredditNew(listing, <<Str_ai>>, Window)
                    ELSE <<>>
       IN /\ limiter' = r.lim
          /\ clock' = r.returnedAt
          /\ hist' = Observe(hist, sub, response, r)
          /\ scrape' = [scrape EXCEPT !.idx = @ + 1,
                                      !.requested = Append(@, sub),
                                      !.allPosts = @ \o posts]
  /\ calls' = calls + 1
  /\ UNCHANGED <<caller, fetchVars, storeVars>>

\* after the loop: deduplicateById, then the sort
ScrapeReturn ==
  /\ scrape.pc = "loop"
  /\ scrape.idx > Len(scrape.targets)
  /\ scrape' = [scrape EXCEPT !.pc = "returned",
                              !.returned = SortByCreatedDesc(deduplicateById(scrape.allPosts))]
  /\ UNCHANGED <<clock, limiter, calls, caller, hist, fetchVars, storeVars>>

NextScrape == ScrapeStart \/ ScrapeSubreddit \/ ScrapeReturn

SpecScrape == InitScrape /\ [][NextScrape]_vars

(***************************************************************************)
(* Claims about HttpRateLimiter.                                           *)
(***************************************************************************)
\* a step that is one call of request()
RequestStep == calls' = calls + 1

\* C13: after a 403 answered a request for subreddit s, every later request()
\* for s returns null without an HTTP call until the next resetRun(), and a
\* request for a subreddit that met no 403 since the last resetRun() is
\* issued as long as the run budget lasts.
C13_ForbiddenSubredditSkipped ==
  [][RequestStep =>
       /\ hist'.sub \in hist.forbidden =>
            /\ ~hist'.issued
            /\ hist'.result = "null"
            /\ hist'.httpRun = hist.httpRun
            /\ limiter'.totalRequestsThisRun = limiter.totalRequestsThisRun
       /\ (hist'.sub \notin hist.forbidden
             /\ limiter.totalRequestsThisRun < maxRequestsPerRun) =>
            /\ hist'.issued
            /\ hist'.httpRun = hist.httpRun + 1]_vars

\* a request for r/ai was skipped after a 403 that was the only HTTP call of
\* the run
C13_Witness ==
  /\ hist.forbidden = {Str_ai}
  /\ hist.sub = Str_ai
  /\ ~hist.issued
  /\ hist.result = "null"
  /\ hist.httpRun = 1
  /\ calls = 2

\* the backoff that n consecutive 429 responses give when the first of them
\* sets the base value and each further one doubles it
DoublingFromBase(n) ==
  IF n <= 1 THEN BaseBackoffMs
  ELSE IF n = 2 THEN Min(BaseBackoffMs * 2, MaxBackoffMs)
  ELSE MaxBackoffMs

\* C14: the backoff after a 429 is 30000 ms for the first 429 following a
\* successful call or the start, doubles with each further consecutive 429,
\* never exceeds 120000 ms and is 30000 ms again after a 2xx response.
C14_BackoffFromBase ==
  /\ limiter.rateLimitBackoffMs = DoublingFromBase(hist.streak429)
  /\ limiter.rateLimitBackoffMs <= MaxBackoffMs

\* C15: between two resetRun() calls the limiter issues at most 30 HTTP
\* requests (totalRequestsThisRun counts them and never exceeds
\* maxRequestsPerRun); a request() made when the budget is used up returns
\* null with no HTTP call, and one made before that is issued.
C15_RunBudget ==
  /\ [](/\ limiter.totalRequestsThisRun <= maxRequestsPerRun
        /\ hist.httpRun = limiter.totalRequestsThisRun)
  /\ [][RequestStep =>
          IF limiter.totalRequestsThisRun >= maxRequestsPerRun
          THEN /\ ~hist'.issued
               /\ hist'.result = "null"
               /\ limiter' = limiter
               /\ clock' = clock
          ELSE /\ hist'.issued
               /\ hist'.httpRun = hist.httpRun + 1]_vars

\* the 31st request() of a run was skipped after 30 HTTP calls
C15_Witness ==
  /\ calls = maxRequestsPerRun + 1
  /\ hist.httpRun = maxRequestsPerRun
  /\ limiter.totalRequestsThisRun = maxRequestsPerRun
  /\ ~hist.issued
  /\ hist.result = "null"

\* C16: the limiter issues at most 30 HTTP requests in any 60-second window,
\* over any sequence of request() and resetRun() calls (the counter of the
\* window never exceeds maxRequestsPerMinute).
C16_WindowLimit ==
  /\ limiter.requests <= maxRequestsPerMinute
  /\ Len(hist.recent) <= maxRequestsPerMinute

\* C17: two consecutive HTTP requests of one limiter start at least 2000 ms
\* apart.
C17_MinimumInterval ==
  hist.httpPrev # 0 => hist.httpStart - hist.httpPrev >= minRequestIntervalMs

\* C18: a 429 answered to a request for subreddit s blocks s as a 403 does:
\* until the next resetRun() s is in blockedSubreddits.
C18_RateLimitedBlocked ==
  hist.limited \subseteq limiter.blockedSubreddits

\* the HTTP outcomes that are failures other than 403 and 429
FailedResponses == {"transport", "500", "unparsable"}

\* C19: request() never throws: a transport failure, a non-2xx status other
\* than 403/429 or an unparsable body makes it return null, which
\* fetchSubredditNew takes as zero posts; the failed call raises the request
\* count of the run by exactly one and leaves the blocked sets unchanged, and
\* the request for the next subreddit is issued.
C19_FailureIsNull ==
  /\ [](hist.result \in {"none", "null", "data"})
  /\ [](LET listing == [ok |-> TRUE, children |-> <<BaseRaw>>]
        IN /\ fetchPosts(<<[ok |-> FALSE]>>, <<Str_ai>>, Window) = <<>>
           /\ fetchPosts(<<[ok |-> FALSE], listing>>, <<Str_ai>>, Window)
                = fetchPosts(<<listing>>, <<Str_ai>>, Window)
           /\ fetchPosts(<<listing>>, <<Str_ai>>, Window) # <<>>)
  /\ [][RequestStep =>
          /\ (hist'.issued /\ hist'.response \in FailedResponses) =>
               /\ hist'.result = "null"
               /\ limiter'.totalRequestsThisRun = limiter.totalRequestsThisRun + 1
               /\ limiter'.blockedSubreddits = limiter.blockedSubreddits
               /\ limiter'.blockedKeywords = limiter.blockedKeywords
          /\ (hist.issued /\ hist.response \in FailedResponses
                /\ hist'.sub \notin limiter.blockedSubreddits
                /\ limiter.totalRequestsThisRun < maxRequestsPerRun) =>
               hist'.issued]_vars

\* the first request of a run met a transport failure: it returned null, was
\* counted once and blocked nothing
C19_Witness ==
  /\ calls = 1
  /\ hist.issued
  /\ hist.response = "transport"
  /\ hist.result = "null"
  /\ hist.httpRun = 1
  /\ limiter.totalRequestsThisRun = 1
  /\ limiter.blockedSubreddits = {}

(***************************************************************************)
(* Claims about the validation at the head of run().                       *)
(***************************************************************************)
\* the keywords or the subreddits of the request are empty or missing
ListMissing(req) ==
  \/ req.keywords \in {<<>>, Missing}
  \/ req.subreddits \in {<<>>, Missing}

ValidationMessages == {"No subreddits provided", "No keywords provided"}

\* C20: run() called with an empty or missing keywords list or an empty or
\* missing subreddits list returns status 'failed' with runId null,
\* postsFound 0 and a descriptive error; until it returns it creates no run
\* record, issues no HTTP request and inserts no item.
C20_InvalidRequestFails ==
  /\ [](\A p \in Procs :
          ListMissing(run[p].req) =>
            /\ run[p].pc \in {"idle", "done"}
            /\ ~run[p].scraped
            /\ run[p].runId = NoRunId
            /\ run[p].posts = <<>>
            /\ run[p].ins = InitialInsertState
            /\ run[p].pc = "done" =>
                 /\ run[p].result.status = "failed"
                 /\ run[p].result.runId = NoRunId
                 /\ run[p].result.postsFound = 0
                 /\ run[p].result.error \in ValidationMessages)
  /\ [][\A p \in Procs :
          (ListMissing(run[p].req) /\ run'[p] # run[p]) =>
            /\ dbRuns' = dbRuns
            /\ dbItems' = dbItems]_vars

\* a request that names a run of the database but carries no keywords has
\* been refused before the other invocation took a step: the table of runs
\* is as it was and no item is stored
C20_Witness ==
  /\ run["runA"].req.runId = ExistingRunId
  /\ run["runA"].req.keywords = Missing
  /\ run["runA"].pc = "done"
  /\ run["runA"].result = Failed("No keywords provided")
  /\ dbRuns = <<RunningRow>>
  /\ dbItems = <<>>
  /\ run["runB"].pc = "idle"

(***************************************************************************)
(* parseWindow at the head of run(), over the window strings.              *)
(***************************************************************************)
\* characters of a window string
MaxWindowLen == 3

WindowChars == {"0", "1", "2", "3", "4", "5", "7", "h", "d", "w", "D", " "}

WindowStrings == StringsOver(WindowChars, 0, MaxWindowLen)

\* run() called with a request whose window is any string, the database
\* being disabled
InitWindow ==
  /\ FetchIdle
  /\ LimIdle
  /\ dbEnabled = FALSE
  /\ dbRuns = <<>>
  /\ dbItems = <<>>
  /\ feed = <<>>
  /\ \E w \in WindowStrings :
       run = [p \in Procs |->
                IdleRun([runId |-> NoRunId, keywords |-> <<Str_ai>>,
                         subreddits |-> <<Str_ai>>,
                         window |-> IF p = "runA" THEN w ELSE Str_7d])]

\* run() up to the call of the scraper
NextWindow == \E p \in Procs : RunBegin(p)

SpecWindow == InitWindow /\ [][NextWindow]_vars

RECURSIVE DecimalValue(_)
\* the number a string of decimal digits denotes
DecimalValue(digits) ==
  IF digits = <<>> THEN 0
  ELSE DigitValue(digits[Len(digits)])
         + 10 * DecimalValue(SubSeq(digits, 1, Len(digits) - 1))

\* the string is one or more digits followed by the unit
IsWindowOf(window, unit) ==
  \E k \in 1..(Len(window) - 1) :
    /\ k = Len(window) - 1
    /\ window[Len(window)] = unit
    /\ \A i \in 1..k : window[i] \in DigitChars

NumberOf(window) == DecimalValue(SubSeq(window, 1, Len(window) - 1))

\* C22: parseWindow maps a string matching ^\d+[hdw]$ with number n to
\* ceil(n/24) days for unit h, n days for unit d and 7n days for unit w, and
\* every other string to 7 days.
C22_ParseWindow ==
  \A p \in Procs :
    run[p].pc # "idle" =>
      LET w == run[p].req.window
          days == run[p].days
      IN /\ IsWindowOf(w, "h") =>
              /\ 24 * days >= NumberOf(w)
              /\ 24 * (days - 1) < NumberOf(w)
         /\ IsWindowOf(w, "d") => days = NumberOf(w)
         /\ IsWindowOf(w, "w") => days = 7 * NumberOf(w)
         /\ (~IsWindowOf(w, "h") /\ ~IsWindowOf(w, "d") /\ ~IsWindowOf(w, "w")) =>
              days = 7

\* 25h has been parsed to two days
C22_Witness ==
  /\ run["runA"].req.window = <<"2", "5", "h">>
  /\ run["runA"].pc = "scrape"
  /\ run["runA"].days = 2

(***************************************************************************)
(* Claims about the outcome of run().                                      *)
(***************************************************************************)
\* C21: for every request run() resolves with a result whose status is
\* 'completed' or 'failed' and never rejects; an exception raised while the
\* run record is created, while scraping or while persisting gives a
\* 'failed' result with postsFound 0.
C21_AlwaysResolves ==
  \A p \in Procs :
    run[p].pc = "done" =>
      /\ run[p].result.status \in {"completed", "failed"}
      /\ run[p].result.status = "failed" => run[p].result.postsFound = 0

(***************************************************************************)
(* Claims about fetchPosts.                                                *)
(***************************************************************************)
\* the caller gave no subreddits
NoSubreddits == scrape.subs = Missing \/ scrape.subs = <<>>

\* C23 (amended): fetchPosts calls request() exactly once per entry of the
\* caller's subreddits list, in list order, for the entry with a leading r/
\* removed and then trimmed, and for no other name; with an empty or missing
\* list it throws before any request and before touching the rate limiter.
C23_OneRequestPerEntry ==
  IF NoSubreddits
  THEN /\ scrape.pc \in {"start", "threw"}
       /\ scrape.requested = <<>>
       /\ calls = 0
       /\ limiter = NewLimiter(ConstructedAt)
       /\ hist = NoHistory
  ELSE /\ scrape.pc # "threw"
       /\ Len(scrape.requested) <= Len(scrape.subs)
       /\ calls = Len(scrape.requested)
       /\ \A i \in 1..Len(scrape.requested) :
            scrape.requested[i] = trim(StripRPrefix(scrape.subs[i]))
       /\ scrape.pc = "returned" => Len(scrape.requested) = Len(scrape.subs)

\* r/ai and 'ai ' were both requested as ai, one request each
C23_Witness ==
  /\ scrape.pc = "returned"
  /\ scrape.subs = <<Str_r_ai, Str_ai_pad>>
  /\ scrape.requested = <<Str_ai, Str_ai>>
  /\ calls = 2

\* C23 as stated: the name requested is the entry with a leading r/ removed
C23_Original ==
  ~NoSubreddits =>
    \A i \in 1..Len(scrape.requested) :
      scrape.requested[i] = StripRPrefix(scrape.subs[i])

\* the request carries a runId
CarriesRunId(p) == run[p].req.runId # NoRunId

\* the runId of the request has no row in runs
UnknownRun(p) == run[p].req.runId \notin 1..Len(dbRuns)

ValidPlace(post) ==
  /\ post.url \notin {Null, <<>>}
  /\ ~includes(post.url, Str_r_unknown)
  /\ MatchesPostUrl(post.url)
  /\ HasUsableSubreddit(post)
  /\ UrlNamesSubreddit(post)

\* C25: insertPosts converts a post whose author is "unknown" to author
\* "[deleted]" and submits it to the table (its subreddit and URL being
\* valid) rather than dropping it.
C25_UnknownAuthorStored ==
  \A p \in Procs : \A k \in 1..Len(run[p].ins.log) :
    (run[p].posts[k].author = Str_unknown /\ ValidPlace(run[p].posts[k])) =>
      run[p].ins.log[k] \in AttemptOutcomes

----------------------------------------------------------------------------
\* the four admission checks, in the order of the loop body, and the
\* counters a post failing each of them is counted under
CheckOrder == <<"window", "deleted", "keyword", "subreddit">>

Passes(check, post) ==
  CASE check = "window"    -> InWindow(post)
    [] check = "deleted"   -> ~( \/ post.selftext = DeletedStr
                                 \/ post.title = DeletedStr
                                 \/ Truthy(post.removed_by_category) )
    [] check = "keyword"   -> \E i \in 1..Len(fUnique) :
                                includes(toLowerCase(post.title), toLowerCase(fUnique[i]))
    [] check = "subreddit" -> Truthy(extractSubreddit(post).subreddit)

CountersOf(check) ==
  CASE check = "window"    -> {"skippedTimeWindow"}
    [] check = "deleted"   -> {"skippedDeleted"}
    [] check = "keyword"   -> {"skippedNoKeyword"}
    [] check = "subreddit" -> {"skippedNoSubreddit", "skippedCrossPost"}

\* C26: a post is admitted exactly when it passes all four checks (a
\* conjunction, so the admitted posts do not depend on the order of the
\* checks), and a rejected post moves one counter of the first check it fails
\* in the order time window, deleted/removed, keyword, subreddit resolution,
\* and no other rejection counter.
C26_FirstFailedCheckCounts ==
  [][ fIdx' = fIdx + 1 =>
        LET post == fChildren[fIdx]
        IN /\ (Len(fLoc'.posts) = Len(fLoc.posts) + 1)
                <=> \A i \in 1..Len(CheckOrder) : Passes(CheckOrder[i], post)
           /\ \A i \in 1..Len(CheckOrder) :
                ( /\ ~Passes(CheckOrder[i], post)
                  /\ \A j \in 1..(i - 1) : Passes(CheckOrder[j], post) )
                => /\ fLoc'.posts = fLoc.posts
                   /\ \E c \in CountersOf(CheckOrder[i]) :
                        /\ fLoc'[c] = fLoc[c] + 1
                        /\ \A d \in RejectionCounters \ {c} : fLoc'[d] = fLoc[d]
    ]_vars

\* a deleted post from outside the window has been counted as time-window
C26_Witness ==
  /\ fIdx = 2
  /\ ~InWindow(LastChild)
  /\ LastChild.selftext = DeletedStr
  /\ fLoc.skippedTimeWindow = 1
  /\ fLoc.skippedDeleted = 0

----------------------------------------------------------------------------
\* a step that is one call of resetRun(): the caller has made no request()
ResetStep == calls' = calls

\* C27: resetRun() empties blockedSubreddits and blockedKeywords and zeroes
\* totalRequestsThisRun, and leaves rateLimitBackoffMs, lastRateLimitTime,
\* requests and lastReset as they were; so the next request for a subreddit
\* that was answered 403 in the run before is issued again, and a request that
\* the backoff of a 429 of the run before is still pending for sleeps for the
\* rest of that backoff first.
C27_ResetRunFrame ==
  /\ [][ResetStep =>
          /\ limiter'.blockedSubreddits = {}
          /\ limiter'.blockedKeywords = {}
          /\ limiter'.totalRequestsThisRun = 0
          /\ limiter'.rateLimitBackoffMs = limiter.rateLimitBackoffMs
          /\ limiter'.lastRateLimitTime = limiter.lastRateLimitTime
          /\ limiter'.requests = limiter.requests
          /\ limiter'.lastReset = limiter.lastReset]_vars
  /\ [][(RequestStep /\ hist.httpRun = 0) =>
          /\ hist'.issued
          /\ (clock - limiter.lastRateLimitTime < limiter.rateLimitBackoffMs) =>
               /\ hist'.waited = limiter.rateLimitBackoffMs
                                   - (clock - limiter.lastRateLimitTime)
               /\ hist'.httpStart = limiter.lastRateLimitTime
                                      + limiter.rateLimitBackoffMs]_vars

\* r/ai was answered 403 and another request 429 in the run before; the
\* first request of this run is for r/ai and was issued after sleeping out
\* the backoff
C27_Witness ==
  /\ calls = 3
  /\ hist.httpRun = 1
  /\ hist.sub = Str_ai
  /\ hist.sub \in hist.forbiddenBefore
  /\ hist.issued
  /\ hist.waited > minRequestIntervalMs
  /\ limiter.lastRateLimitTime # 0

----------------------------------------------------------------------------
\* C28: the list fetchPosts returns has no two posts with the same id, holds
\* for every id among the posts fetchSubredditNew admitted in this call the
\* first of them in request order and nothing else, and is ordered by
\* createdAt, newest first.
C28_ReturnedUniqueSorted ==
  scrape.pc = "returned" =>
    LET out == scrape.returned
        all == scrape.allPosts
    IN /\ \A i, j \in 1..Len(out) : i < j =>
            /\ out[i].id # out[j].id
            /\ out[i].createdAt >= out[j].createdAt
       /\ \A i \in 1..Len(out) :
            \E k \in 1..Len(all) :
              /\ all[k] = out[i]
              /\ \A m \in 1..(k - 1) : all[m].id # out[i].id
       /\ \A k \in 1..Len(all) : \E i \in 1..Len(out) : out[i].id = all[k].id

\* two requests for r/ai: the second listing carries a newer post and the
\* post of the first listing again, with another score
C28_Witness ==
  /\ scrape.pc = "returned"
  /\ Len(scrape.allPosts) = 3
  /\ scrape.allPosts[3].id = scrape.allPosts[1].id
  /\ scrape.allPosts[3] # scrape.allPosts[1]
  /\ scrape.returned = <<scrape.allPosts[2], scrape.allPosts[1]>>

----------------------------------------------------------------------------
\* the invocation has returned and had inserted a row into runs
CreatedItsRow(p) ==
  /\ run[p].pc = "done"
  /\ run[p].req.runId = NoRunId
  /\ run[p].runId # NoRunId

\* C29: a row that run() inserted into runs has, once that run() has
\* returned, the status of the returned result ('completed' or 'failed') and
\* is not 'running' any more.
C29_RowSettledAtReturn ==
  \A p \in Procs :
    CreatedItsRow(p) =>
      /\ dbRuns[run[p].runId].status = run[p].result.status
      /\ dbRuns[run[p].runId].status \in {"completed", "failed"}

----------------------------------------------------------------------------
\* C30: every element of uniqueKeywords is lowercase, has no whitespace at
\* either end, holds no underscore and no hyphen and is left unchanged by
\* normalizeKeyword, and no two elements are equal.
C30_KeywordsFullyNormalized ==
  fPc # "start" =>
    /\ \A i \in 1..Len(fUnique) :
         LET kw == fUnique[i]
         IN /\ toLowerCase(kw) = kw
            /\ kw = <<>> \/ (~IsSpace(kw[1]) /\ ~IsSpace(kw[Len(kw)]))
            /\ \A n \in 1..Len(kw) : kw[n] \notin {"_", "-"}
            /\ normalizeKeyword(kw) = kw
    /\ \A i, j \in 1..Len(fUnique) : i # j => fUnique[i] # fUnique[j]

====
